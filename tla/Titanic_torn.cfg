\* A reply is fetched while the main thread writes it.
CONSTANTS
  Uuids = {u1}
  NoUuid = NoUuid
  Dead = {}
  MayCrash = FALSE
  MayStop = FALSE
SPECIFICATION Spec
INVARIANT ReplyIsWhole

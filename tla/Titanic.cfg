\* Two requests; the service of the first may never answer.  The process may be killed
\* or interrupted at any time.
CONSTANTS
  Uuids = {u1, u2}
  NoUuid = NoUuid
  Dead = {u1}
  MayCrash = TRUE
  MayStop = TRUE
SPECIFICATION LiveSpec
INVARIANTS TypeOK AckedIsSaved UnknownIsRight MarkedIsAnswered
PROPERTIES LoadsWholeRequest NotCalledAgain KeepsPromise EventuallyAnswered EventuallyQueued

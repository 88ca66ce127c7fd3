\* The timelines abut, overlap and repeat with two phases each; one notifier keeps
\* its request IDs apart; two devices and two requests let a restore meet a save;
\* the sender's numbers wrap within the stream.
CONSTANTS
  Targets = {t1}
  MaxOffset = 1
  MaxDuration = 2
  MaxRepeat = 2
  FirstPhases = 2
  SecondPhases = 2
  TargetFails = TRUE
  Interrupts = TRUE
  Nil = Nil
  Notifiers = {d1}
  MaxVersion = 2
  Retries = 2
  Devices = {d1, d2}
  Names = {n1, n2}
  Values = {v2, v3}
  Requests = {r1, r2}
  Modulus = 8
  Window = 3
  Duplicates = 2
  Length = 3
  First = {7}
SPECIFICATION MCSpec
INVARIANTS ReplayFollowsAuthor PartsSound
PROPERTIES CallsEnd  RequestsAreWhole
CHECK_DEADLOCK FALSE

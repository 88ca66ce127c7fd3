\* Two frames contend for queues, proxy slots and upstream slots of one each;
\* a worker survives one fault.
CONSTANTS
  Frames = {f1, f2}
  RecvCap = 1
  SendCap = 1
  Proxies = 1
  Upstreams = 1
  Restarts = 1
  MaxReloads = 1
  Nil = Nil
SPECIFICATION MCSpec
INVARIANTS  ResolutionsSound 
PROPERTIES SilentAfterStop StackSettles
CHECK_DEADLOCK FALSE

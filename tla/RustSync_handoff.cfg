\* One connection, two slots: a timed-out batch, its late result, its abort and
\* the next batches, in every order.
SPECIFICATION Spec
CONSTANTS
  Conn = {c1}
  NoConn = NoConn
  Slot = {s1, s2}
  MaxFrames = 3
SYMMETRY SlotSymmetry
INVARIANTS
  TypeOK
  OneSlotPerConn
  NoOrphanSlot
  PendingInOnePlace
PROPERTIES
  ImplementsContract

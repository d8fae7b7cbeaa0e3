\* One own unit, two of peers, one failing statement a start; a buffer of four
\* cells and lines of up to five bytes.
CONSTANTS
  Null = null
  Unset = unset
  Own = {o1}
  Peer = {p1, p2}
  Genesis = g
  KeyName = {k1, k2}
  NoKey = no_key
  MaxFailed = 1
  READ_HEAD = rf_rx_data
  Equals = equals
  Data = data
  Zero = zero
  Newline = newline
  N = 4
  MaxLine = 5
SPECIFICATION Spec
INVARIANTS
  TypeOK
  ServesWhole
  CopiesSound
  BroadcastVerifies
  FramesAreLines
PROPERTIES
  KeyForGood

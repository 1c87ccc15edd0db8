\* One message sent is enough.
SPECIFICATION ObserversSpec
CONSTANTS
  Cap = 2
  MarkBit = 4
  Senders = {s1}
  Receivers = {r1}
  MaxSends = 1
  NoMsg = NoMsg
PROPERTY EmptySound

\* Two publishers, two writers, both channels, and consumers that never stop.
CONSTANTS
  p1 = p1
  p2 = p2
  w1 = w1
  w2 = w2
  Publishers = {p1, p2}
  Writers = {w1, w2}
  Capacity = 1
  MaxCalls = 2
  MaxZeros = 1
SPECIFICATION BusLiveSpec
INVARIANT NoSendOnClosed
PROPERTIES IsFifo EverybodyReturns

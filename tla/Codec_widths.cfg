\* Six-bit words: all differences of prices 0..31 with short differences of
\* three bits, and a volume that does not fit its two bits.
SPECIFICATION CodecSpec
CONSTANTS
  WordBits = 6
  SHORTINT_LENGTH = 3
  LengthBits = 3
  VolumeBits = 2
  Prices = {0, 1, 2, 3, 4, 5, 6, 7, 8, 9, 10, 11, 12, 13, 14, 15, 16, 17, 18, 19, 20, 21, 22, 23, 24, 25, 26, 27, 28, 29, 30, 31}
  OtherPrices = {0, 40}
  Volumes = {1, 3, 5}
  NumOrders = 2
INVARIANTS
  RoundTrip
CHECK_DEADLOCK FALSE

\* Every order of arrival of the packets of six bits, two to a packet, with
\* repetitions: the packets are full, and the flush by hand and the destructor
\* send empty ones.  When all is read nothing is left to do.
SPECIFICATION FairSpec
CONSTANTS
  NumBits = 6
  max_num_bits = 2
INVARIANTS
  ReadInOrder
PROPERTIES
  AllRead
CHECK_DEADLOCK FALSE

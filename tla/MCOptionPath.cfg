\* Every arrangement of up to five options and NOPs, and around one option
\* or none up to 14 bytes of padding; three accelerators.
SPECIFICATION Spec
CONSTANTS
  Segments <- MCSegments
  Payload = {0, 2, 8}
  Hops = 3
  MaxOptions = 5
  Paddings = {7, 8, 9, 11, 12, 13, 14}
INVARIANTS DataIntact OptionsKept IdArrives ChecksumsRight

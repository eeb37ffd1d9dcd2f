CONSTANTS
  overflow_value = 4
  Late = 2
  MaxEra = 2
  SetTo = {1, 4}
  Event = {e1, e2}
  Delay = {1, 3}
  TableLen = 2
SPECIFICATION Spec
INVARIANTS TypeOK OverflowsCounted TimeIsRight NeverEarly NeverLate QueueIsSound
CONSTRAINT FewMishaps
SYMMETRY Symmetry
CHECK_DEADLOCK FALSE

\* Every temperature and every jitter of the code, to a hundredth of a degree.
CONSTANTS
  budapest = budapest
  atlantic = atlantic
  Places = {budapest, atlantic}
  Hungary = {budapest}
  StartTemps <- Starts
  Intervals = {999, 1000, 30001}
  Absent = Absent
  Malformed = Malformed
SPECIFICATION Spec
INVARIANTS RunsAsAnswered PublishAccepts
PROPERTY TrendHolds

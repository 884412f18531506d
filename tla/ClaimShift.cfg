SPECIFICATION Spec
CONSTANTS
  MaxSeries = 2
  DayHours = 2
  MaxNow = 4
  Back = 1
  Ahead = 2
  ShiftBatch = 1
  Batch = 1
  MaxSleep = 2
  MaxEvents = 2
PROPERTY ChangedIsNotTouched

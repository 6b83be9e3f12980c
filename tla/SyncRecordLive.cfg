\* The record heals after the races of its writers.
SPECIFICATION FairSpec
CONSTANT RebootCount = 1
CONSTANT Admitted = {"earlyTick"}
PROPERTY RecordCatchesUp

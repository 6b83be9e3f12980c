\* The record survives its three writers, and resets that lose the page.
SPECIFICATION Spec
CONSTANT RebootCount = 2
CONSTANT Admitted = {"powerLoss"}
INVARIANT RecordKept
INVARIANT CountTrue
INVARIANT IInv

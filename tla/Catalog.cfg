\* Three snapshots, two activations that overlap in every way.  An overtaken
\* activation can archive the last of the three; then nothing is left to do.
SPECIFICATION Spec
CONSTANTS
  c1 = c1
  c2 = c2
  c3 = c3
  q1 = q1
  q2 = q2
  None = None
  Snapshots <- ThreeSnapshots
  Requests <- TwoRequests
PROPERTIES ActivationExact PointerUnlessOvertaken
CHECK_DEADLOCK FALSE

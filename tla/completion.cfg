SPECIFICATION Spec
CONSTANTS
  l1 = l1
  l2 = l2
  l3 = l3
  l4 = l4
  l5 = l5
  pilot = pilot
  again = again
INVARIANTS EvidenceIsSound ClaimsAreContinuous FrozenIsTheBest ReceiptsAreTrue HeldOutStaysHeldOut
PROPERTIES GatesHold RunsAreHonest
CHECK_DEADLOCK FALSE

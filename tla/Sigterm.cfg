\* One signal to a service that was started by hand.
CONSTANT MaxFaults = 1
SPECIFICATION SupervisionSpec
INVARIANT SigtermEndsHelpers
CHECK_DEADLOCK FALSE

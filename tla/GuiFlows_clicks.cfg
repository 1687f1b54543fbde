SPECIFICATION Spec
CONSTANTS
  alice = alice
  bob = bob
  None = None
  Profile = {alice, bob}
  Default = alice
  Current = bob
  Gauges <- OneGauge
  Slots = 2
  MaxMany = 1
  MaxClicks = 2
  MaxTimeouts = 1
INVARIANT OneWriter
INVARIANT GaugesOwn
INVARIANT GaugesFresh
INVARIANT PaysOnce
PROPERTY ControlsComeBack
CHECK_DEADLOCK FALSE

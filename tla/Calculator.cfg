\* Two chargers, three configurations the WebUI switches between.
CONSTANTS
  c1 = c1
  c2 = c2
  Chargers = {c1, c2}
  GridVolt = 230
  Samples <- MCSamples
  Limits <- MCLimits
SPECIFICATION Spec
INVARIANTS TypeOK LimitFromSomeConfiguration OvershootBounded
PROPERTIES NewLimitsClamped ImplementsDebouncer

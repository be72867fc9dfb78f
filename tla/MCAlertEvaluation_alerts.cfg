\* Two processes; two rules that share an item.
SPECIFICATION SceneSpec
CONSTANTS
  Processes = {p1, p2}
  Rules = {1, 2}
  Items = {1, 2}
  Scope <- shared_item
  Transition = {2}
  OneTime = {1}
  Cooldown <- cooldowns
  InStock = {in1, in2}
  Edits = TRUE
  MaxTime = 2
  MaxChanges = 2
  MaxFaults = 1
SYMMETRY AlertSymmetry
INVARIANTS
  MarkedMeansRaised
  CooldownKept
CHECK_DEADLOCK FALSE

SPECIFICATION RolloutSpec
CONSTANTS AutoPods = {a1, a2} MaxPushes = 2 MaxRedeploys = 0 MaxPullFaults = 0 Undisturbed = TRUE
PROPERTY PushReachesPods
CHECK_DEADLOCK FALSE

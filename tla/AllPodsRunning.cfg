SPECIFICATION Spec
CONSTANTS
    Loops = {"podsRunning", "podsByLabels", "kueue", "mariadb", "deletion", "container",
             "oauth", "download", "route", "phaseKept", "sanity", "metrics", "user", "guardrails"}
    PodIds = {1, 2}
    Expected = 2
    Checks = 2
    Limit = 3
PROPERTY AllPodsRunning
CHECK_DEADLOCK FALSE

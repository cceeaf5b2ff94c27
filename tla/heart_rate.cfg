SPECIFICATION Spec
INVARIANTS
    SensorFollowsState
    PowerObeyed

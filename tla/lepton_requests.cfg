SPECIFICATION Spec
CONSTANTS
    Served <- MCServed
    Rois = {r1, r2}
INVARIANTS
    TogglesObeyed
    FFCNotForgotten
    RoiArrives

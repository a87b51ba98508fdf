SPECIFICATION Spec
CONSTANTS
    MaxListeners = 2
INVARIANTS
    TypeOK
    SwitchesAgree
    OnWhileListening

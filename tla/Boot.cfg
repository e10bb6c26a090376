CONSTANT Air = {a}
SPECIFICATION Spec
INVARIANTS TypeOK HandlersReady NeverLeftDeaf LedsTell
PROPERTY StartsDwmLogic

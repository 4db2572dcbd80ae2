\* Six requests, two faults.
CONSTANTS
    None = None
    Torn = Torn
    Request <- MCRequest
    KeyOf <- MCKey
    EffectIDOf <- MCEffectID
    ActionOf <- MCAction
    MaxFaults = 2
SPECIFICATION Spec
INVARIANTS TypeOK ReceiptsSound ReceiptProtocol RepeatsAreForBreaks ReceiptMeansReplaced AutosaveIsBack
PROPERTIES BindingsStable ResumeSettles
CHECK_DEADLOCK FALSE

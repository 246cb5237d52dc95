\* Three wallets are one more than the limit of the short window.
SPECIFICATION Spec
CONSTANTS
    Wallet = {w1, w2, w3}
    Window <- MCWindow
    Limit <- MCLimit
INVARIANTS
    SuspiciousMeansWindow
CHECK_DEADLOCK FALSE

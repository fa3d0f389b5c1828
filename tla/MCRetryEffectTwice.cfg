\* Every kind of method with the default 5 attempts: an allow-listed method
\* that changes the node's state is executed again after a lost answer.
CONSTANTS
    Methods <- MCMethods
    Effect <- MCEffect
    Retries = 5
SPECIFICATION Spec
INVARIANT EffectAtMostOnce

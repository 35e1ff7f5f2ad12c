\* listen() on a listening acceptor overwrites fd_.
CONSTANT ListenWhileListening = TRUE
SPECIFICATION Spec
INVARIANT NoHandleLeak

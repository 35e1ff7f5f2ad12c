\* A non-blocking socket: send() maps WSAEWOULDBLOCK and partial sends to success.
CONSTANT ListenWhileListening = FALSE
SPECIFICATION Spec
INVARIANT SendOkMeansAllTaken

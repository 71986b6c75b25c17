SPECIFICATION Spec
CONSTANTS
    Requests = {1, 2}
    Passwords = {"p", "q"}
    Sids = {1, 2}
    MaxAttempts = 2
    Window = 2
    SessionTtl = 2
    Limit = 1
    ThrottleTtl = 2
    \* signing up and in; a session and what is done with it
    Mixes = {{"login"}, {"register", "google"}, {"google", "password"}, {"google", "logout", "me"}}
    None = None
    Gone = Gone
    Forever = Forever
INVARIANTS
    OneRegistrationWins
PROPERTIES
    EndedStaysEnded

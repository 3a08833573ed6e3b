---------------------------- MODULE MCAuthSessions ----------------------------
(* Small instances of AuthSessions.  Rows and requests are interchangeable. *)
EXTENDS AuthSessions, TLC

CONSTANTS u1, s1, s2, s3, h1, h2

MCUser == {u1}
ThreeSessions == {s1, s2, s3}
MCHandler == {h1, h2}
MCSymmetry == Permutations(Session) \cup Permutations(Handler)
=============================================================================

--------------------------- MODULE MCSubmission ---------------------------
EXTENDS Submission, TLC

CONSTANTS s1, s2, web, grant

\* A webmail session and an app signed in with OAuth.
MCKindOf == web :> "session" @@ grant :> "oauth"

\* Nobody is here; everybody here gets it; some are refused and others get nothing
\* although they count as reached; everybody is refused, here and elsewhere.
MCOutcomes == {{}, {"got"}, {"refused", "dropped"}, {"refused", "inside"}}

\* One submission with each.
MCLoginOf == s1 :> web @@ s2 :> grant
=============================================================================

------------------------------- MODULE MCSignIn -------------------------------
(* Model values for SignIn.tla: Google vouches for one of the addresses. *)
EXTENDS SignIn, TLC

CONSTANTS alice, bob, gmail, other

MCAuthoritative == {<<alice, gmail>>, <<bob, gmail>>}
SignInSymmetry == Permutations(Accounts \ Passwordless) \cup Permutations(States)
                \cup Permutations(Callbacks)

\* The history of a callback matters only while its attempts go on.
View == <<account, oauth, session, [c \in Callbacks |->
  IF callback[c].stage \in {"subject", "email", "link", "create"}
    THEN callback[c] ELSE [callback[c] EXCEPT !.known = {}]]>>
=============================================================================

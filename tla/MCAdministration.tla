--------------------------- MODULE MCAdministration ---------------------------
(***************************************************************************)
(* Media, Content and Registration for TLC, one of them at a time: what    *)
(* they have in common is requests that read rows and write them back      *)
(* later, and no row is in two of them.  One product with one media type   *)
(* and a quota of one, two rows of media, three file names; two services,  *)
(* two covers; two accounts, two passwords, one link in a mailbox; two     *)
(* requests at a time.                                                     *)
(***************************************************************************)
EXTENDS Media, Content, Registration, TLC

VARIABLE part
adminVars == <<part, vars, contentVars, regVars>>

Symmetric == UNION {Permutations(S) : S \in {Files, Users}}

\* A form the page sends is refused for its password or its address only.
ASSUME PageAsksForEnough ==
    \A f \in Form : Sent(f) /\ validate_password(f) => RegisterFields(f)

AdminInit == Init /\ ContentInit /\ RegInit /\ part \in {"media", "content", "accounts"}
AdminNext ==
    /\ UNCHANGED part
    /\ \/ part = "media" /\ Next /\ UNCHANGED <<contentVars, regVars>>
       \/ part = "content" /\ ContentNext /\ UNCHANGED <<vars, regVars>>
       \/ part = "accounts" /\ RegNext /\ UNCHANGED <<vars, contentVars>>
AdminSpec == AdminInit /\ [][AdminNext]_adminVars
===============================================================================

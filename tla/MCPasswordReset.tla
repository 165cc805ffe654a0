---------------------------- MODULE MCPasswordReset ----------------------------
(***************************************************************************)
(* Instances of PasswordReset for TLC.                                     *)
(***************************************************************************)
EXTENDS PasswordReset, TLC

CONSTANTS f1, f2, v1, r1, r2, w1, w2, short, long, wild

\* Two codes, a verification and two resets.
MCRequests == {f1, f2, v1, r1, r2}
MCKind == f1 :> "forgot" @@ f2 :> "forgot" @@ v1 :> "verify"
          @@ r1 :> "reset" @@ r2 :> "reset"
MCAt == f1 :> w1 @@ f2 :> w1 @@ v1 :> w1 @@ r1 :> w1 @@ r2 :> w2

\* E-mails: a@x.co, a@x.com, of which it is a prefix, and ?@x.com, which as a pattern
\* of Redis matches the second.
MCExtending == short :> {short, long} @@ long :> {long} @@ wild :> {wild}
MCMatching == short :> {short, long} @@ long :> {long} @@ wild :> {wild, long}
=============================================================================

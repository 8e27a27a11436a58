--------------------------- MODULE ChallengeDefs ---------------------------
(***************************************************************************)
(* What the sign-in challenge stores have in common: the challenges, the    *)
(* calls made on a store, and the comparison that decides whether a         *)
(* challenge has expired.                                                    *)
(*                                                                          *)
(* Source: internal/siwe/nonce/nonce.go.                                     *)
(*                                                                          *)
(* A "caller" is ONE call of Store.Put or Store.Consume, made by one HTTP   *)
(* request; a program that makes many calls is a larger set Callers.        *)
(***************************************************************************)
EXTENDS Integers

CONSTANTS
    Callers,        \* the calls made on the store
    Nonces,         \* the nonces nonce.New can return
    Bodies,         \* message, address and audience of a challenge, opaque here
    NoNonce,        \* the nonce of a call not made yet
    NoChallenge,    \* no entry under a nonce
    ChallengeTTL,   \* lifetime of a challenge, in clock ticks; config.Load takes any sign
    MaxTime         \* bound on every clock (a bound of the model only)

\* nonce.Challenge: Message, Address and Audience are the body.
Challenge == [body : Bodies, expiresAt : Int]

ASSUME ChallengeAssumption ==
    /\ ChallengeTTL \in Int
    /\ MaxTime \in Nat
    /\ NoNonce \notin Nonces
    /\ NoChallenge \notin Challenge

MaybeChallenge == Challenge \cup {NoChallenge}

\* time.Time.After is strict: a challenge is still good in its last tick.
Expired(ch, t) == t > ch.expiresAt

\* A table of challenges after the entries under S are deleted.
Sweep(table, S) == [n \in Nonces |-> IF n \in S THEN NoChallenge ELSE table[n]]

=============================================================================

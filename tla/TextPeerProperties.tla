-------------------------- MODULE TextPeerProperties --------------------------
(***************************************************************************)
(* What makes the collaborative text correct.                              *)
(***************************************************************************)
EXTENDS TextPeer

Idle(p, q) ==
    /\ Alive(p) /\ Alive(q)
    /\ {<<p, q>>, <<q, p>>} \subseteq open
    /\ channel[<<p, q>>] = << >>
    /\ channel[<<q, p>>] = << >>
    /\ ~SomethingIn(Unsent(p))
    /\ ~SomethingIn(Unsent(q))

(***************************************************************************)
(* When two connected peers have nothing more to tell each other, they     *)
(* hold the same items and tombstones: neither the catch-up of a joining   *)
(* peer nor the broadcast cursors have skipped anything.                   *)
(***************************************************************************)
IdlePeersAgree ==
    \A p, q \in User :
        Idle(p, q) => /\ Ids(text[p]) = Ids(text[q])
                      /\ text[p].deleted = text[q].deleted

(***************************************************************************)
(* The same for what their users see.                                      *)
(***************************************************************************)
IdlePeersShowSameText ==
    \A p, q \in User : Idle(p, q) => Visible(text[p]) = Visible(text[q])

Agreed ==
    \A p, q \in User :
        /\ text[p].deleted = text[q].deleted
        /\ Visible(text[p]) = Visible(text[q])

StayLinked == <>[](\A p, q \in User : p # q => {p, q} \in linked)

(***************************************************************************)
(* Once nobody edits any more, peers that stay connected come to show the  *)
(* same text and keep it: every edit is broadcast or asked for, and the    *)
(* echoes of broadcasts die out.                                           *)
(***************************************************************************)
EventuallyAgreed == StayLinked => <>[]Agreed
===============================================================================

----------------------------- MODULE ShownOffers -----------------------------
(***************************************************************************)
(* What one user was shown in the last 24 hours, and what Redis remembers  *)
(* of it for the rules R3 and R4: the state that requests share, and the   *)
(* contact policy.  The requests are in OfferMarks.                        *)
(***************************************************************************)
EXTENDS Integers, FiniteSets

CONSTANTS Campaigns,   \* campaigns eligible for the user
          Requests,    \* GET /recommendations/{user_id} in this horizon
          Limit        \* frequency_gate_per_24h

VARIABLES marked,     \* campaigns with a key recent_offer:{user}:{campaign}
          count,      \* rec_count:{user}; a key that does not exist counts 0
          shown,      \* offers the client got: campaign and request
          contended,  \* history: campaigns two requests were marking at once
          raced       \* history: two requests were writing the count at once

-----------------------------------------------------------------------------
(***************************************************************************)
(* The anti-fatigue rule: the campaign is shown to the user once, whatever *)
(* failed, was rejected or taken back between the two requests.            *)
(***************************************************************************)
ShownOnce(c) == \A s, t \in shown : s[1] = c /\ t[1] = c => s = t

(***************************************************************************)
(* Taking a mark back restores the state before the evaluation             *)
(* (anti_fatigue.py:51): it never uncovers an offer the user was shown.    *)
(***************************************************************************)
Remembered(c) == (\E s \in shown : s[1] = c) => c \in marked

ShownIsMarked == \A c \in Campaigns : Remembered(c)

(***************************************************************************)
(* The frequency gate: "Caps the number of recommendations shown to a user *)
(* in the last 24h" (frequency_gate.py:3); and the counter covers what was *)
(* shown, so that the next request keeps to the limit too.                 *)
(***************************************************************************)
WithinLimit == Cardinality(shown) <= count /\ count <= Limit

(***************************************************************************)
(* The contact policy under requests that overlap (two devices, a retry of *)
(* mobile_api after its timeout).  Redis is read and written in two calls, *)
(* so the code cannot keep it outright; but all that can break it is one   *)
(* request reading between the GET and the SETEX of another, of the same   *)
(* key.  Whatever else two requests do at once, a release beside an        *)
(* evaluation included, is harmless.                                       *)
(***************************************************************************)
ContactPolicy ==
  /\ \A c \in Campaigns \ contended : ShownOnce(c) /\ Remembered(c)
  /\ raced \/ WithinLimit
=============================================================================

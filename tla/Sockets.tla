------------------------------- MODULE Sockets -------------------------------
(***************************************************************************)
(* The admin's live connection: RealtimeProvider keeps one socket for the  *)
(* access token there is, getSocket recycles it when the token changes,    *)
(* and the gateway looks at the token only after the client was told that  *)
(* it is connected.  Socket.IO dials again when a connection is lost, but  *)
(* not when the server ends it.                                            *)
(***************************************************************************)
CONSTANTS
  Badges,     \* access tokens
  NoBadge

ASSUME SocketsAssumption == NoBadge \notin Badges

VARIABLES
  badge,      \* the store's access token
  worn,       \* tokens there have been (history)
  outworn,    \* tokens that ran out
  effectDue,  \* the token changed, and the effect has not run again
  heeding,    \* the token of the socket whose events the provider hears
  cached,     \* getSocket's module variable
  wire,       \* the socket of each token
  rooms,      \* the sockets that the gateway let into their rooms
  connected   \* what the provider says

socketVars == <<badge, worn, outworn, effectDue, heeding, cached, wire, rooms, connected>>

SocketsTypeOK ==
  /\ badge \in Badges \cup {NoBadge} /\ worn \subseteq Badges /\ outworn \subseteq worn
  /\ heeding \in Badges \cup {NoBadge} /\ cached \in Badges \cup {NoBadge}
  /\ wire \in [Badges -> {"none", "dialing", "up", "refused", "closed"}]
  /\ rooms \subseteq Badges /\ effectDue \in BOOLEAN /\ connected \in BOOLEAN

SocketsInit ==
  /\ badge = NoBadge /\ worn = {} /\ outworn = {} /\ effectDue = TRUE
  /\ heeding = NoBadge /\ cached = NoBadge
  /\ wire = [b \in Badges |-> "none"]
  /\ rooms = {} /\ connected = FALSE

-----------------------------------------------------------------------------
(* The store: a login or a refresh brings a token, a logout takes it.      *)

TakeBadge(b) ==
  /\ b \notin worn
  /\ badge' = b /\ worn' = worn \cup {b} /\ effectDue' = TRUE
  /\ UNCHANGED <<outworn, heeding, cached, wire, rooms, connected>>

DropBadge ==
  /\ badge # NoBadge
  /\ badge' = NoBadge /\ effectDue' = TRUE
  /\ UNCHANGED <<worn, outworn, heeding, cached, wire, rooms, connected>>

BadgeRunsOut(b) ==
  /\ b \in worn \ outworn
  /\ outworn' = outworn \cup {b}
  /\ UNCHANGED <<badge, worn, effectDue, heeding, cached, wire, rooms, connected>>

-----------------------------------------------------------------------------
(* The provider's effect: its cleanup stops listening, getSocket hangs up  *)
(* the socket of another token.                                            *)

Hung == IF cached = NoBadge THEN wire ELSE [wire EXCEPT ![cached] = "closed"]

DisconnectSocket ==
  /\ effectDue /\ badge = NoBadge
  /\ wire' = Hung /\ rooms' = rooms \ {cached} /\ cached' = NoBadge
  /\ heeding' = NoBadge /\ connected' = FALSE /\ effectDue' = FALSE
  /\ UNCHANGED <<badge, worn, outworn>>

\* What the provider says is left as it was: the new socket's events correct it.
GetSocket ==
  /\ effectDue /\ badge # NoBadge
  /\ IF cached = badge THEN UNCHANGED <<wire, rooms>>
     ELSE wire' = [Hung EXCEPT ![badge] = "dialing"] /\ rooms' = rooms \ {cached}
  /\ cached' = badge /\ heeding' = badge /\ effectDue' = FALSE
  /\ connected' = (connected \/ wire'[badge] = "up")
  /\ UNCHANGED <<badge, worn, outworn>>

Hears(b, event) == connected' = IF heeding = b THEN event ELSE connected

-----------------------------------------------------------------------------
(* The gateway.                                                            *)

Connects(b) ==
  /\ wire[b] = "dialing"
  /\ wire' = [wire EXCEPT ![b] = "up"] /\ Hears(b, TRUE)
  /\ UNCHANGED <<badge, worn, outworn, effectDue, heeding, cached, rooms>>

\* handleConnection, once verifyAsync has answered.
LetsIn(b) ==
  /\ wire[b] = "up" /\ b \notin rooms /\ b \notin outworn
  /\ rooms' = rooms \cup {b}
  /\ UNCHANGED <<badge, worn, outworn, effectDue, heeding, cached, wire, connected>>

TurnsAway(b) ==
  /\ wire[b] = "up" /\ b \notin rooms /\ b \in outworn
  /\ wire' = [wire EXCEPT ![b] = "refused"] /\ Hears(b, FALSE)
  /\ UNCHANGED <<badge, worn, outworn, effectDue, heeding, cached, rooms>>

ConnectionLost(b) ==
  /\ wire[b] = "up"
  /\ wire' = [wire EXCEPT ![b] = "dialing"] /\ rooms' = rooms \ {b} /\ Hears(b, FALSE)
  /\ UNCHANGED <<badge, worn, outworn, effectDue, heeding, cached>>

SocketsNext ==
  \/ DropBadge \/ DisconnectSocket \/ GetSocket
  \/ \E b \in Badges : \/ TakeBadge(b) \/ BadgeRunsOut(b)
                       \/ Connects(b) \/ LetsIn(b) \/ TurnsAway(b) \/ ConnectionLost(b)

SocketsSpec == SocketsInit /\ [][SocketsNext]_socketVars

-----------------------------------------------------------------------------
\* However tokens change and connections are lost, no second socket dials or
\* hears: a recycled one is hung up, and so is that of a logout.
OneSocket == \A b \in Badges : wire[b] \in {"dialing", "up", "refused"} => b = cached

\* The rooms hold no socket of a token that is gone, but for the moment before
\* the effect, and none of a connection that is down.
RoomsAreLive == \A b \in rooms : wire[b] = "up" /\ (effectDue \/ b = badge)

\* A provider that is connected says so; it says so wrongly only of a socket
\* that has not connected yet, after a change of token.
SaysTruly ==
  ~effectDue => /\ badge # NoBadge /\ wire[badge] = "up" => connected
                /\ connected => badge # NoBadge /\ wire[badge] \in {"up", "dialing"}

SocketsStand == OneSocket /\ RoomsAreLive /\ SaysTruly

=============================================================================

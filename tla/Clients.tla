------------------------------- MODULE Clients -------------------------------
(**************************************************************************)
(* Whoever meets the server over a network that loses and delays what is  *)
(* sent: the staff at its console (StaffConsole), a player in a browser   *)
(* (BrowserClient) and the payment provider behind its webhook            *)
(* (ProviderWebhooks).                                                    *)
(*                                                                        *)
(* The three share no state: what others do to the rows one of them is    *)
(* about is part of its own module.  So each has its own specification.   *)
(* Variables and constants of the same name are told apart here.          *)
(**************************************************************************)
EXTENDS StaffConsole

CONSTANTS Presses, Overlap                                       \* of BrowserClient
VARIABLES sid, token, page, visit, work, sess, auths, effects, player

Pages == INSTANCE BrowserClient WITH Tasks <- Presses, tok <- token, task <- work

CONSTANTS Payments, KindOf, Script, Workers, Tolerance, Skew,    \* of ProviderWebhooks
          MaxTime, StaffActions
VARIABLES now, wire, told, worker, reported, applied

Provider == INSTANCE ProviderWebhooks WITH Ops <- Payments, Kind <- KindOf, status <- reported

-----------------------------------------------------------------------------
(* What is promised to them *)

(* One press of a button has at most one effect, though a spin may be sent a second time, and *)
(* the token and the session the browser keeps are of one account. (Every variable has its    *)
(* type.)                                                                                     *)
PressesCountOnce == Pages!TypeOK /\ Pages!OneEffectPerClick /\ Pages!SameAccount

(* A token that expired is not answered by playing on as a guest without being told (unless a *)
(* refresh of the account page noticed).                                                      *)
NeverDowngradedSilently == Pages!NoSilentDowngrade

(* What docs/ARCHITECTURE.md:67 says: an expired token is surfaced to the client and does not *)
(* silently downgrade a registered player to a guest session.                                 *)
ExpiredTokenSurfaces == Pages!ExpiryIsSurfaced

(* The provider's events take effect in the order of its list, each at most once, and what *)
(* the provider was told to be accepted has taken effect. (Every variable has its type.)   *)
ProviderIsFollowed == Provider!TypeOK /\ Provider!InProviderOrder /\ Provider!ToldIsApplied
==============================================================================

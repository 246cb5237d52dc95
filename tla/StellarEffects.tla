--------------------------- MODULE StellarEffects ---------------------------
(***************************************************************************)
(* From an effect on the Stellar network to a push: parseStellarEffect of  *)
(* StellarService, running against the hash and the registry of            *)
(* AddressIndex while these change.                                        *)
(*                                                                         *)
(* An effect passes the filter in Redis, the lookup of the newest wallet,  *)
(* and for a credit the dust limit and the trustline at Horizon; each      *)
(* answer belongs to its own moment.  Parses share nothing, so one at a    *)
(* time stands for all of them; the scans that start them are the subject  *)
(* of StellarScanner.                                                      *)
(***************************************************************************)
EXTENDS AddressIndex

CONSTANT NoDevice   \* nobody is notified

ASSUME EffectAssumption ==
    /\ NoDevice \notin Device
    /\ Xlm # {}

\* What parseStellarEffect tells apart: a created account or a trade, a credit, and a credit
\* of less than 0.00009 XLM; every other type is of no interest.
Kind == {"other", "notice", "credit", "dust"}

VARIABLES trusted,   \* does the account hold what the effect credits to it
          parse      \* the parse: where it is, its effect, the device found, who was notified

effectVars == <<trusted, parse>>
allVars == <<vars, effectVars>>

Resting ==
    [pc |-> "idle", to |-> CHOOSE a \in Xlm : TRUE, kind |-> "other", device |-> NoDevice,
     sent |-> NoDevice, calm |-> FALSE, owners |-> {}]

EffectInit ==
    /\ Init
    /\ trusted = FALSE
    /\ parse = Resting

-----------------------------------------------------------------------------
(* History.  owners are the devices that were the newest of the address at *)
(* some moment of the parse; it is calm while the hash is in order about   *)
(* the address and nothing about it changes.                               *)

\* Mutant: the oldest wallet decides.
OwnerOf_Oldest(a) ==
    {DeviceOf[w] : w \in {v \in Wallet : /\ Registered(v) /\ XlmOf[v] = a
                                         /\ \A u \in Wallet : (Registered(u) /\ XlmOf[u] = a)
                                                                => created[v] <= created[u]}}

\* findOneByXlmWithDevice: the device of the newest wallet.
OwnerOf(a) == {DeviceOf[w] : w \in {v \in Wallet : Registered(v) /\ XlmOf[v] = a /\ Newest(v, Wallet)}}

NewestOwners(a) == {DeviceOf[w] : w \in {v \in Wallet : Registered(v) /\ XlmOf[v] = a /\ Newest(v, Wallet)}}

InOrder(a) == a \notin spoiled /\ Asking(a) = {} /\ ~Loading /\ Reach(a) /\ trusted

\* What a step around the parse means for it.
Witness ==
    \E a \in {parse.to} :
        parse' = IF parse.pc = "idle" THEN Resting
                 ELSE [parse EXCEPT !.calm = @ /\ InOrder(a)' /\ NewestOwners(a)' = NewestOwners(a),
                                    !.owners = @ \cup NewestOwners(a)']

Around ==
    /\ Next
    /\ IF boot # "down" /\ boot' = "down"
       THEN trusted' = FALSE /\ parse' = Resting
       ELSE UNCHANGED trusted /\ Witness

\* The account changes its trustline.
TrustChanges ==
    /\ parse.pc # "idle"
    /\ trusted' = ~trusted
    /\ UNCHANGED vars
    /\ Witness

-----------------------------------------------------------------------------
(* parseStellarEffect *)

\* fetchLedgerEffects hands over an effect; most types are of no interest.
Parse(a, k) ==
    /\ boot # "down"
    /\ parse.pc = "idle"
    /\ k # "other"
    /\ trusted' \in BOOLEAN
    /\ UNCHANGED vars
    /\ parse' = [Resting EXCEPT !.pc = "filter", !.to = a, !.kind = k,
                                !.calm = InOrder(a)', !.owners = NewestOwners(a)]

\* The parse returns; device was notified, if it is one.
Return(device, calm) ==
    /\ parse' = [Resting EXCEPT !.sent = device, !.calm = calm]
    /\ trusted' = FALSE

Notify(device) == Return(device, parse.calm)

Ignore == Return(NoDevice, parse.calm)

Continue(pc, device) ==
    /\ parse' = [parse EXCEPT !.pc = pc, !.device = device]
    /\ UNCHANGED trusted

\* isKeyExist answers.
Filter ==
    /\ parse.pc = "filter"
    /\ IF Tracked(parse.to) THEN Continue("lookup", NoDevice) ELSE Ignore
    /\ UNCHANGED vars

\* Mutant: a wallet without a token, or none, is not sorted out.
Lookup_Unchecked ==
    /\ parse.pc = "lookup"
    /\ \E d \in IF OwnerOf(parse.to) = {} THEN {NoDevice} ELSE OwnerOf(parse.to) :
          \/ parse.kind = "notice" /\ Notify(d)
          \/ parse.kind = "dust" /\ Ignore
          \/ parse.kind = "credit" /\ Continue("trust", d)
    /\ UNCHANGED vars

\* The newest wallet is read, and its device's token: a created account and a trade are
\* notified at once, dust never, any other credit once the trustline was looked at.
Lookup ==
    /\ parse.pc = "lookup"
    /\ \/ (~ \E d \in OwnerOf(parse.to) : hasToken[d]) /\ Ignore
       \/ \E d \in OwnerOf(parse.to) :
             /\ hasToken[d]
             /\ \/ parse.kind = "notice" /\ Notify(d)
                \/ parse.kind = "dust" /\ Ignore
                \/ parse.kind = "credit" /\ Continue("trust", d)
    /\ UNCHANGED vars

\* Mutant: an account that does not trust the asset yet is asked again.
Trustline_Retries ==
    /\ parse.pc = "trust"
    /\ trusted
    /\ Notify(parse.device)
    /\ UNCHANGED vars

\* checkTrustline: loadAccount answers; the token in hand is the one the lookup read.
Trustline ==
    /\ parse.pc = "trust"
    /\ IF trusted THEN Notify(parse.device) ELSE Ignore
    /\ UNCHANGED vars

\* Redis or MongoDB fails and fetchLedgerEffects logs it, or Horizon does and the asset
\* counts as not trusted: in each case the effect is lost.
EffectFails ==
    /\ parse.pc # "idle"
    /\ Fault
    /\ Return(NoDevice, FALSE)
    /\ UNCHANGED <<registryVars, bootVars, hookVars, index, request, crashes, spoiled>>

ParseStep == Filter \/ Lookup \/ Trustline \/ EffectFails

EffectNext ==
    \/ Around
    \/ TrustChanges
    \/ \E a \in Xlm, k \in Kind : Parse(a, k)
    \/ ParseStep

EffectSpec == EffectInit /\ [][EffectNext]_allVars

(* Redis, MongoDB and Horizon answer or fail, and Node then goes on.       *)
FairEffectSpec == EffectSpec /\ WF_allVars(ParseStep)

-----------------------------------------------------------------------------

\* Every variable stays in its range; the trustline is asked about only with a device in
\* hand.
EffectTypeOK ==
    /\ trusted \in BOOLEAN
    /\ parse \in [pc : {"idle", "filter", "lookup", "trust"}, to : Xlm, kind : Kind,
                  device : Device \cup {NoDevice}, sent : Device \cup {NoDevice},
                  calm : BOOLEAN, owners : SUBSET Device]
    /\ parse.pc = "trust" => parse.device # NoDevice

Ends == parse.pc # "idle" /\ parse'.pc = "idle"

\* The README: the service "resolves each event to the user's device".  From the
\* registration of a wallet to the push: if an address was registered and its request
\* served, nothing about it went wrong or changes during the parse and it trusts the asset,
\* then an effect that is not dust notifies the device of its newest wallet, whatever
\* crashed, was reloaded or was removed before.
CalmIsNotified ==
    [][(Ends /\ parse'.calm /\ parse.kind # "dust") => NewestOwners(parse.to) = {parse'.sent}]_allVars

\* Nobody else is notified: the device was that of the newest wallet of the address at some
\* moment of the parse, whatever the hash still holds.
OnlyOwnersNotified ==
    [][(Ends /\ parse'.sent # NoDevice) => parse'.sent \in parse.owners]_allVars

\* A parse comes to an end, so the ledger it belongs to goes on.
ParseReturns == (parse.pc # "idle") ~> (parse.pc = "idle")

=============================================================================

---------------------------- MODULE ContractRequests ----------------------------
(***************************************************************************)
(* The requests that ask providers for their rates: offers, init-contract  *)
(* and update (pkg/httpServer/methods.go, pkg/services/providers).  One    *)
(* request at a time, for one bag of one user; while it waits for agents,  *)
(* the database or the storage daemon, the bag goes on living.             *)
(*                                                                         *)
(* A request relies on two promises: what AgentQuery says of the agents,   *)
(* which AgentCalls keeps, and what BagOfUser says of the bag, which       *)
(* BagLifecycle keeps.                                                     *)
(*                                                                         *)
(* A target of the agents is a provider's key.  Offers and declines are    *)
(* lists in the order of the keys that were sent: they are kept here by    *)
(* the place of their key in that list.  The reasons of declines, spans    *)
(* and the encoding of a contract's cells are left out.                    *)
(***************************************************************************)
EXTENDS AgentQuery, BagOfUser, Integers, FiniteSets, Sequences, Functions

CONSTANTS
    Requests,      \* the lists of provider keys that clients send
    Sizes,         \* the bag sizes that clients send, in bytes
    BagSize,       \* the size of the bag, as the storage daemon tells it
    Megabyte,      \* 1 << 20
    Width,         \* the number of values of a uint64
    HandlerLimit,  \* maxProviders of fetchProvidersOffers
    ServiceLimit   \* providersLimit

ASSUME RatesAssumption ==
    Rows \subseteq [ok : BOOLEAN, available : BOOLEAN, space : Nat, price : Nat]
ASSUME RequestsAssumption == Requests \subseteq Seq(Targets)
ASSUME WidthAssumption == Width \in Nat /\ Megabyte \in Nat \ {0}
ASSUME SizesAssumption == {0, BagSize} \cup Sizes \subseteq 0..(Width - 1)

VARIABLES
    kind,         \* which handler runs
    stage,        \* what it waits for
    providers,    \* the keys it was sent
    size,         \* the bag size it asks rates for
    offers,       \* offers and declines, by the place of the key
    declines,
    reply,        \* how the last request was answered
    transaction,  \* the providers and prices of a contract
    overdue,      \* the relation has been expired since the request came
    named         \* the owner address of the body, parsed and printed again, is the
                  \* address that the relation is stored under

requestVars == <<kind, stage, providers, size, offers, declines, reply, transaction>>

lifeVars == <<bagVars, overdue, named>>

vars == <<queryVars, requestVars, lifeVars>>

Offer == [key : Targets, price : Nat]

NoContract == [t \in {} |-> 0]

TypeOK ==
    /\ QueryTypeOK
    /\ BagTypeOK
    /\ kind \in {"offers", "init", "update"}
    /\ stage \in {"idle", "sizing", "rating", "checking", "building"}
    /\ providers \in Requests
    /\ size \in 0..(Width - 1)
    /\ DOMAIN offers \cup DOMAIN declines \subseteq DOMAIN providers
    /\ \A i \in DOMAIN offers : offers[i] \in Offer
    /\ \A i \in DOMAIN declines : declines[i] \in Targets
    /\ reply \in {"none", "refused", "offers", "transaction", "blank"}
    /\ DOMAIN transaction \subseteq Targets
    /\ \A t \in DOMAIN transaction : transaction[t] \in Nat
    /\ overdue \in BOOLEAN
    /\ named \in BOOLEAN

Init ==
    /\ QueryInit
    /\ BagInit
    /\ kind = "offers"
    /\ stage = "idle"
    /\ providers \in Requests
    /\ size = 0
    /\ offers = <<>>
    /\ declines = <<>>
    /\ reply = "none"
    /\ transaction = NoContract
    /\ overdue = FALSE
    /\ named = TRUE

--------------------------------------------------------------------------------
(* Rates. *)

\* Mutant of NeededSpace: the size is rounded down.
WholeMegabytes(bytes) == bytes \div Megabyte

\* (bagSize + 1<<20 - 1) >> 20 in uint64: the sum wraps for the largest sizes.
NeededSpace(bytes) == ((bytes + Megabyte - 1) % Width) \div Megabyte

\* offerFromRatesRow, without the reasons.
CanOffer(row) == row.ok /\ row.space >= NeededSpace(size) /\ row.available

Offered(key) == key \in DOMAIN answer /\ CanOffer(answer[key])

OfferPlaces == {i \in DOMAIN providers : Offered(providers[i])}

OffersOfProviders ==
    [i \in OfferPlaces |-> [key |-> providers[i], price |-> answer[providers[i]].price]]

\* The map of a contract's providers: one entry per key.
ContractOf(made) ==
    [key \in {made[i].key : i \in DOMAIN made} |->
        made[CHOOSE i \in DOMAIN made : made[i].key = key].price]

\* len(offers) == len(providers)
AllOffered(made) == Cardinality(DOMAIN made) = Len(providers)

--------------------------------------------------------------------------------
(* The handlers. *)

TooMany(k, keys) ==
    \/ k = "offers" /\ Len(keys) > HandlerLimit
    \/ k # "update" /\ Len(keys) > ServiceLimit

\* Mutant of Receive: what the last request was answered is not cleared.
ReceiveUncleared(k, keys, bytes) ==
    /\ stage = "idle"
    /\ kind' = k
    /\ providers' = keys
    /\ size' = bytes
    /\ overdue' = (relation = "expired")
    /\ named' \in BOOLEAN
    /\ UNCHANGED <<offers, declines, transaction, bagVars>>

\* The owner address of the body is the client's to choose, and its form too: nothing
\* compares it with the address of the session.
Receive(k, keys, bytes) ==
    /\ stage = "idle"
    /\ kind' = k
    /\ providers' = keys
    /\ size' = bytes
    /\ offers' = <<>>
    /\ declines' = <<>>
    /\ transaction' = NoContract
    /\ overdue' = (relation = "expired")
    /\ named' \in BOOLEAN
    /\ UNCHANGED bagVars

RefuseTooMany(k, keys, bytes) ==
    /\ Receive(k, keys, bytes)
    /\ TooMany(k, keys)
    /\ reply' = "refused"
    /\ UNCHANGED <<stage, queryVars>>

\* Nothing is asked about an empty list, and the bag is not looked at: init-contract
\* answers with an empty transaction, update with a contract without providers.
AnswerEmpty(k, bytes) ==
    /\ Receive(k, <<>>, bytes)
    /\ \/ k = "offers" /\ reply' = "offers"
       \/ k = "update" /\ reply' \in {"transaction", "refused"}
       \/ k = "init" /\ reply' = "blank"
    /\ UNCHANGED <<stage, queryVars>>

\* FetchProvidersRates takes the size from the daemon if the client sent none.
\* init-contract never sends one, update always does.
AskSize(k, keys) ==
    /\ Receive(k, keys, 0)
    /\ k # "update"
    /\ keys # <<>> /\ ~TooMany(k, keys)
    /\ stage' = "sizing"
    /\ reply' = "none"
    /\ UNCHANGED queryVars

AskRates(k, keys, bytes) ==
    /\ Receive(k, keys, bytes)
    /\ k = "update" \/ (k = "offers" /\ bytes # 0)
    /\ keys # <<>> /\ ~TooMany(k, keys)
    /\ stage' = "rating"
    /\ reply' = "none"
    /\ Query(Range(keys))

Refuse ==
    /\ stage' = "idle"
    /\ reply' = "refused"

\* GetBag fails for a bag the daemon does not have, and may fail for others; so may
\* the encoding of the contract.
BagFails ==
    /\ stage \in {"sizing", "building"}
    /\ Refuse
    /\ UNCHANGED <<kind, providers, size, offers, declines, transaction, queryVars, lifeVars>>

FindSize ==
    /\ stage = "sizing"
    /\ stored
    /\ size' = BagSize
    /\ stage' = "rating"
    /\ Query(Range(providers))
    /\ UNCHANGED <<kind, providers, offers, declines, reply, transaction, lifeVars>>

\* Mutant of UseOffers: the contract is made with the providers that did offer.
UseSomeOffers(made) ==
    \/ kind = "offers" /\ stage' = "idle" /\ reply' = "offers" /\ UNCHANGED transaction
    \/ /\ kind = "update"
       /\ stage' = "idle"
       /\ reply' = "transaction"
       /\ transaction' = ContractOf(made)
    \/ kind = "init" /\ stage' = "checking" /\ UNCHANGED <<reply, transaction>>

\* What each handler does with the offers: a contract needs all of them.  The address
\* or a key sent to update may turn out not to parse.
UseOffers(made) ==
    \/ kind = "offers" /\ stage' = "idle" /\ reply' = "offers" /\ UNCHANGED transaction
    \/ kind # "offers" /\ ~AllOffered(made) /\ Refuse /\ UNCHANGED transaction
    \/ kind = "update" /\ Refuse /\ UNCHANGED transaction
    \/ /\ kind = "update" /\ AllOffered(made)
       /\ stage' = "idle"
       /\ reply' = "transaction"
       /\ transaction' = ContractOf(made)
    \/ /\ kind = "init" /\ AllOffered(made)
       /\ stage' = "checking"
       /\ UNCHANGED <<reply, transaction>>

\* Mutant of MakeOffers: a provider the agent does not mention is passed over.
OfferMentioned ==
    /\ stage = "rating"
    /\ outcome = "rows"
    /\ offers' = OffersOfProviders
    /\ declines' = Restrict(providers,
                       {i \in DOMAIN providers \ OfferPlaces : providers[i] \in DOMAIN answer})
    /\ UseOffers(offers')
    /\ UNCHANGED <<kind, providers, size, queryVars, lifeVars>>

MakeOffers ==
    /\ stage = "rating"
    /\ outcome = "rows"
    /\ offers' = OffersOfProviders
    /\ declines' = Restrict(providers, DOMAIN providers \ OfferPlaces)
    /\ UseOffers(offers')
    /\ UNCHANGED <<kind, providers, size, queryVars, lifeVars>>

RatesFail ==
    /\ stage = "rating"
    /\ outcome = "error"
    /\ declines' = providers
    /\ UseOffers(<<>>)
    /\ UNCHANGED <<kind, providers, size, offers, queryVars, lifeVars>>

\* Mutant of CheckExpiry: an expired relation is not looked for.
SkipExpiry ==
    /\ stage = "checking"
    /\ stage' = "building"
    /\ UNCHANGED <<kind, providers, size, offers, declines, reply, transaction, queryVars, lifeVars>>

\* IsBagExpired: is there an unpaid relation of the owner that is too old?  Its error,
\* and an owner address that does not parse, are answered like an expired bag; of an
\* owner other than the user there may be any relation with the bag, or none.
CheckExpiry ==
    /\ stage = "checking"
    /\ \/ Refuse
       \/ /\ named => relation # "expired"
          /\ stage' = "building"
          /\ UNCHANGED reply
    /\ UNCHANGED <<kind, providers, size, offers, declines, transaction, queryVars, lifeVars>>

BuildContract ==
    /\ stage = "building"
    /\ stored
    /\ stage' = "idle"
    /\ reply' = "transaction"
    /\ transaction' = ContractOf(offers)
    /\ UNCHANGED <<kind, providers, size, offers, declines, queryVars, lifeVars>>

--------------------------------------------------------------------------------
(* What goes on meanwhile. *)

AgentsAnswer ==
    /\ QueryEnds
    /\ UNCHANGED <<requestVars, lifeVars>>

\* What the request calls overdue is a matter of this one relation.
BagLives ==
    /\ BagNext
    /\ overdue' = (overdue /\ relation' = "expired")
    /\ UNCHANGED <<named, queryVars, requestVars>>

--------------------------------------------------------------------------------

Kinds == {"offers", "init", "update"}

Next ==
    \/ \E k \in Kinds, keys \in Requests, bytes \in Sizes : RefuseTooMany(k, keys, bytes)
    \/ \E k \in Kinds, bytes \in Sizes : <<>> \in Requests /\ AnswerEmpty(k, bytes)
    \/ \E k \in Kinds, keys \in Requests : AskSize(k, keys)
    \/ \E k \in Kinds, keys \in Requests, bytes \in Sizes : AskRates(k, keys, bytes)
    \/ BagFails
    \/ FindSize
    \/ MakeOffers
    \/ RatesFail
    \/ CheckExpiry
    \/ BuildContract
    \/ AgentsAnswer
    \/ BagLives

Spec == Init /\ [][Next]_vars

--------------------------------------------------------------------------------

\* Each provider of an offers request gets an offer or is declined, none gets both and
\* none is passed over, however little the agents answer.
EveryProviderIsAnswered ==
    reply = "offers" =>
        /\ Cardinality(DOMAIN offers) + Cardinality(DOMAIN declines) = Len(providers)
        /\ Range(providers) = {o.key : o \in Range(offers)} \cup Range(declines)
        /\ {o.key : o \in Range(offers)} \cap Range(declines) = {}

\* A provider that offers has room for the whole bag, its last megabyte included.
\* The sizes for which the sum in uint64 wraps are excepted: they need no room.
OfferedProvidersHaveRoom ==
    size <= Width - Megabyte =>
        \A o \in Range(offers) : answer[o.key].space * Megabyte >= size

\* A contract is made with all the providers that were asked for and no other, each
\* at the price it offered for this bag.
ContractIsAsAsked ==
    reply = "transaction" /\ providers # <<>> =>
        /\ DOMAIN transaction = Range(providers)
        /\ \A key \in DOMAIN transaction :
              transaction[key] = answer[key].price /\ CanOffer(answer[key])

\* docs/API.ru.md:274 init-contract: no contract is made for a bag whose free storage is
\* over.  The user may pay, upload or delete while the rates are asked for; what
\* was expired when the request came and is still so at its end has been refused,
\* provided that the request names the user as the owner, in the form the relation has
\* been stored under.  One that names anybody else is let through.
\* (The removal of the relation meanwhile passes for "not expired".)
ExpiredBagGetsNoContract ==
    [][reply' = "transaction" /\ reply # "transaction" /\ kind' = "init"
           => ~(overdue /\ named)]_vars
================================================================================

------------------------ MODULE ContractRequestsProofs ------------------------
(***************************************************************************)
(* Theorems of ContractRequests, for all lists of providers, rates and     *)
(* sizes, and whatever the agents answer within AgentQuery.                *)
(***************************************************************************)
EXTENDS ContractRequests, FiniteSetTheorems, TLAPS

--------------------------------------------------------------------------------
(* The data. *)

\* The places of a list of keys are finite, and as many as it is long.
LEMMA Places ==
    ASSUME NEW keys \in Requests
    PROVE  /\ keys \in Seq(Targets)
           /\ DOMAIN keys = 1..Len(keys)
           /\ IsFiniteSet(DOMAIN keys)
           /\ Cardinality(DOMAIN keys) = Len(keys)
           /\ Range(keys) \subseteq Targets
<1>1. keys \in Seq(Targets)
  BY RequestsAssumption
<1>2. DOMAIN keys = 1..Len(keys) /\ Len(keys) \in Nat
  BY <1>1
<1>3. Range(keys) \subseteq Targets
  BY <1>1 DEF Range
<1>. QED  BY <1>1, <1>2, <1>3, FS_Interval

\* As many offers as providers: all of them.
LEMMA AllPlacesOffered ==
    ASSUME providers \in Requests, NEW made, DOMAIN made \subseteq DOMAIN providers,
           AllOffered(made)
    PROVE  DOMAIN made = DOMAIN providers
BY Places, FS_Subset DEF AllOffered

\* A row of the answer has a price and a number of megabytes.
LEMMA RowTypes ==
    ASSUME QueryTypeOK, NEW key \in DOMAIN answer
    PROVE  answer[key].price \in Nat /\ answer[key].space \in Nat /\ key \in Targets
<1>1. answer[key] \in Rows /\ key \in Targets
  BY DEF QueryTypeOK, Answers
<1>. QED  BY <1>1, RatesAssumption

\* offers tells of the answer what it says.
OffersMatch(made) ==
    /\ DOMAIN made \subseteq DOMAIN providers
    /\ \A i \in DOMAIN made : /\ Offered(providers[i])
                              /\ made[i] = [key |-> providers[i],
                                            price |-> answer[providers[i]].price]

\* The offers that are made tell of the answer what it says.
LEMMA OffersOfProvidersMatch == OffersMatch(OffersOfProviders)
BY DEF OffersMatch, OffersOfProviders, OfferPlaces

\* The contract of all the offers has all the providers, at their prices.
AsAsked ==
    /\ DOMAIN transaction = Range(providers)
    /\ \A key \in DOMAIN transaction :
          transaction[key] = answer[key].price /\ Offered(key)

\* A contract made of offers of all providers has each of them, at the price it offered.
LEMMA ContractOfAll ==
    ASSUME providers \in Requests, NEW made, OffersMatch(made), AllOffered(made)
    PROVE  LET deal == ContractOf(made)
           IN  /\ DOMAIN deal = Range(providers)
               /\ \A key \in DOMAIN deal : deal[key] = answer[key].price /\ Offered(key)
<1>. DEFINE deal == ContractOf(made)
<1>1. DOMAIN made = DOMAIN providers
  BY AllPlacesOffered DEF OffersMatch
<1>2. DOMAIN deal = Range(providers)
  BY <1>1 DEF ContractOf, OffersMatch, Range
<1>3. ASSUME NEW key \in DOMAIN deal PROVE deal[key] = answer[key].price /\ Offered(key)
  <2>. DEFINE c == CHOOSE i \in DOMAIN made : made[i].key = key
  <2>1. \E i \in DOMAIN made : made[i].key = key
    BY DEF ContractOf
  <2>2. c \in DOMAIN made /\ made[c].key = key
    BY <2>1, Zenon
  <2>3. deal[key] = made[c].price
    BY DEF ContractOf
  <2>. HIDE DEF c
  <2>. QED  BY <2>2, <2>3 DEF OffersMatch
<1>. QED  BY <1>2, <1>3

\* The megabytes a size needs hold it, unless the sum wraps.
LEMMA NeededSpaceHolds ==
    ASSUME NEW bytes \in 0..(Width - 1), bytes <= Width - Megabyte
    PROVE  NeededSpace(bytes) \in Nat /\ NeededSpace(bytes) * Megabyte >= bytes
<1>. USE WidthAssumption
<1>. DEFINE sum == bytes + Megabyte - 1  q == sum \div Megabyte
<1>1. sum \in 0..(Width - 1)
  OBVIOUS
<1>2. NeededSpace(bytes) = q
  BY <1>1 DEF NeededSpace
<1>3. q \in Nat /\ sum < (q + 1) * Megabyte
  BY <1>1
<1>4. (q + 1) * Megabyte = q * Megabyte + Megabyte
  BY <1>3
<1>. QED  BY <1>1, <1>2, <1>3, <1>4

--------------------------------------------------------------------------------
(* The agents and the bag keep their types. *)

\* A query begins about targets, with no row.
LEMMA QueryBegins ==
    ASSUME NEW targets \in SUBSET Targets, Query(targets)
    PROVE  QueryTypeOK'
<1>1. NoRowsYet \in [{} -> Rows]
  BY DEF NoRowsYet
<1>. QED  BY <1>1 DEF Query, QueryTypeOK, Answers

\* It ends with rows of targets, or with none.
LEMMA QueryEndsTyped ==
    ASSUME QueryTypeOK, QueryEnds
    PROVE  QueryTypeOK' /\ outcome = "asking" /\ outcome' # "asking"
BY DEF QueryTypeOK, QueryEnds, QueryFails, QueryAnswers

\* What happens outside of a query leaves it alone,
LEMMA QueryStutters == QueryTypeOK /\ UNCHANGED queryVars => QueryTypeOK'
BY DEF QueryTypeOK, queryVars

\* and what happens to other bags leaves this one alone.
LEMMA BagStutters == BagTypeOK /\ UNCHANGED bagVars => BagTypeOK'
BY DEF BagTypeOK, bagVars

\* A step of the bag leaves it with one of the four relations, on disk or not.
LEMMA BagNextTyped == BagTypeOK /\ BagNext => BagTypeOK'
BY DEF BagTypeOK, BagNext, BagIsSaved, BagExpires, BagIsPaid, RelationEnds, BagIsCreated,
       BagLeavesDisk, RelationBecomes

--------------------------------------------------------------------------------
(* The requests. *)

\* What is known while a request waits: agents are asked for rates only,
\* an answer has not been given yet, and init-contract goes on with all the offers.
Waiting ==
    /\ stage # "rating" => outcome # "asking"
    /\ stage # "idle" => reply = "none"
    /\ stage \in {"sizing", "rating"} => DOMAIN offers = {}
    /\ stage \in {"checking", "building"} => kind = "init" /\ AllOffered(offers)

\* What is overdue is expired still, and has been noticed if it was asked about.
Expiry ==
    /\ overdue => relation = "expired"
    /\ stage = "building" => ~(overdue /\ named)

Results ==
    /\ OffersMatch(offers)
    /\ EveryProviderIsAnswered
    /\ reply = "transaction" /\ providers # <<>> => AsAsked

RequestInv == TypeOK /\ Waiting /\ Expiry /\ Results

\* A request that comes finds nobody asked and starts with nothing.
LEMMA ReceiveKeeps ==
    ASSUME RequestInv, NEW k \in Kinds, NEW keys \in Requests, NEW bytes \in Sizes \cup {0},
           Receive(k, keys, bytes), QueryTypeOK',
           \/ UNCHANGED <<stage, outcome>> /\ reply' = "refused"
           \/ /\ UNCHANGED <<stage, outcome>> /\ keys = <<>>
              /\ reply' \in {"refused", "offers", "transaction", "blank"}
           \/ stage' = "sizing" /\ reply' = "none" /\ UNCHANGED outcome
           \/ stage' = "rating" /\ reply' = "none"
    PROVE  RequestInv'
<1>1. outcome # "asking" /\ stage = "idle"
  BY DEF RequestInv, Waiting, Receive
<1>2. /\ DOMAIN offers' = {} /\ DOMAIN declines' = {} /\ DOMAIN transaction' = {}
      /\ kind' = k /\ providers' = keys /\ size' = bytes
  BY DEF Receive, NoContract
<1>3. TypeOK'
  <2>1. size' \in 0..(Width - 1)
    BY <1>2, SizesAssumption
  <2>2. BagTypeOK'
    BY BagStutters DEF Receive, RequestInv, TypeOK
  <2>3. overdue' \in BOOLEAN /\ named' \in BOOLEAN
    BY DEF Receive
  <2>4. stage' \in {"idle", "sizing", "rating"}
    BY <1>1
  <2>. QED  BY <1>2, <2>1, <2>2, <2>3, <2>4 DEF TypeOK, Kinds
<1>4. Waiting' /\ Expiry'
  BY <1>1, <1>2 DEF Waiting, Expiry, Receive, bagVars
<1>5. Results'
  <2>1. reply' = "offers" => EveryProviderIsAnswered'
    <3>. SUFFICES ASSUME reply' = "offers" PROVE EveryProviderIsAnswered'
      OBVIOUS
    <3>1. providers' = <<>>
      BY <1>2
    <3>2. Cardinality(DOMAIN offers') = 0 /\ Cardinality(DOMAIN declines') = 0
      BY <1>2, FS_EmptySet
    <3>3. Range(providers') = {} /\ Range(offers') = {} /\ Range(declines') = {}
      BY <1>2, <3>1 DEF Range
    <3>. QED  BY <3>1, <3>2, <3>3 DEF EveryProviderIsAnswered
  <2>2. reply' = "transaction" => providers' = <<>>
    BY <1>2
  <2>. QED  BY <1>2, <2>1, <2>2 DEF Results, OffersMatch, EveryProviderIsAnswered
<1>. QED  BY <1>3, <1>4, <1>5 DEF RequestInv

\* What a handler does with the offers, once they match the rates.
LEMMA UseOffersKeeps ==
    ASSUME RequestInv, stage = "rating", outcome # "asking",
           UNCHANGED <<kind, providers, size, queryVars, lifeVars>>,
           OffersMatch(offers'), UseOffers(offers'),
           DOMAIN declines' \subseteq DOMAIN providers,
           \A i \in DOMAIN declines' : declines'[i] = providers[i],
           reply' = "offers" => EveryProviderIsAnswered'
    PROVE  RequestInv'
<1>1. QueryTypeOK
  BY DEF RequestInv, TypeOK
<1>2. QueryTypeOK' /\ BagTypeOK'
  BY QueryStutters, BagStutters DEF RequestInv, TypeOK, lifeVars
<1>3. UNCHANGED <<outcome, answer, kind, providers, size, relation, overdue, named>>
  BY DEF queryVars, lifeVars, bagVars
<1>4. /\ providers \in Requests /\ kind \in {"offers", "init", "update"} /\ reply = "none"
      /\ DOMAIN transaction \subseteq Targets
      /\ \A key \in DOMAIN transaction : transaction[key] \in Nat
  BY DEF RequestInv, TypeOK, Waiting
<1>5. OffersMatch(offers)'
  BY <1>3 DEF OffersMatch, Offered, CanOffer, NeededSpace
<1>6. \A i \in DOMAIN providers : providers[i] \in Targets
  BY <1>4, Places
<1>7. \A i \in DOMAIN offers' : offers'[i] \in Offer
  BY <1>1, <1>6, RowTypes DEF OffersMatch, Offered, Offer
<1>8. reply' = "transaction" =>
        /\ transaction' = ContractOf(offers')
        /\ AllOffered(offers')
  BY <1>4 DEF UseOffers, Refuse
<1>9. reply' = "transaction" => AsAsked'
  <2>1. ASSUME reply' = "transaction"
        PROVE  /\ DOMAIN transaction' = Range(providers)
               /\ \A key \in DOMAIN transaction' :
                     transaction'[key] = answer[key].price /\ Offered(key)
    BY <1>4, <1>8, <2>1, ContractOfAll
  <2>. QED  BY <1>3, <2>1 DEF AsAsked, Offered, CanOffer, NeededSpace
<1>10. \/ UNCHANGED transaction
       \/ reply' = "transaction"
  BY DEF UseOffers
<1>11. /\ DOMAIN transaction' \subseteq Targets
       /\ \A key \in DOMAIN transaction' : transaction'[key] \in Nat
  <2>1. ASSUME reply' = "transaction"
        PROVE  /\ DOMAIN transaction' = Range(providers)
               /\ \A key \in DOMAIN transaction' :
                     transaction'[key] = answer[key].price /\ Offered(key)
    BY <1>4, <1>8, <2>1, ContractOfAll
  <2>2. Range(providers) \subseteq Targets
    BY <1>4, Places
  <2>. QED  BY <1>1, <1>4, <1>10, <2>1, <2>2, RowTypes DEF Offered
<1>12. TypeOK'
  <2>2. stage' \in {"idle", "checking"} /\ reply' \in {"none", "refused", "offers", "transaction"}
    BY <1>4 DEF UseOffers, Refuse, RequestInv, TypeOK
  <2>3. /\ DOMAIN offers' \cup DOMAIN declines' \subseteq DOMAIN providers'
        /\ \A i \in DOMAIN declines' : declines'[i] \in Targets
    BY <1>3, <1>6 DEF OffersMatch
  <2>4. size' \in 0..(Width - 1) /\ overdue' \in BOOLEAN /\ named' \in BOOLEAN
    BY <1>3 DEF RequestInv, TypeOK
  <2>. QED  BY <1>2, <1>3, <1>4, <1>7, <1>11, <2>2, <2>3, <2>4 DEF TypeOK
<1>13. Waiting'
  <2>1. \/ stage' = "idle"
        \/ /\ stage' = "checking" /\ UNCHANGED reply
           /\ kind = "init" /\ AllOffered(offers')
    BY DEF UseOffers, Refuse
  <2>2. AllOffered(offers') => AllOffered(offers)'
    BY <1>3 DEF AllOffered
  <2>. QED  BY <1>3, <1>4, <2>1, <2>2 DEF Waiting
<1>14. Expiry'
  BY <1>3, <1>12 DEF UseOffers, Refuse, RequestInv, Expiry
<1>15. Results'
  BY <1>3, <1>5, <1>9 DEF Results, EveryProviderIsAnswered
<1>. QED  BY <1>12, <1>13, <1>14, <1>15 DEF RequestInv

\* Each provider is in the list of the offers or in that of the declines.
LEMMA OffersAndDeclines ==
    ASSUME providers \in Requests,
           offers' = OffersOfProviders,
           declines' = Restrict(providers, DOMAIN providers \ OfferPlaces),
           UNCHANGED providers
    PROVE  EveryProviderIsAnswered'
<1>. DEFINE rest == DOMAIN providers \ OfferPlaces
<1>1. DOMAIN offers' = OfferPlaces /\ DOMAIN declines' = rest
  BY DEF OffersOfProviders, Restrict
<1>2. Cardinality(OfferPlaces) + Cardinality(rest) = Len(providers)
  <2>1. OfferPlaces = DOMAIN providers \cap OfferPlaces
    BY DEF OfferPlaces
  <2>2. Cardinality(rest) = Cardinality(DOMAIN providers) - Cardinality(OfferPlaces)
    <3>. DEFINE places == DOMAIN providers
    <3>1. IsFiniteSet(places)
      BY Places
    <3>. HIDE DEF places
    <3>2. Cardinality(places \ OfferPlaces)
             = Cardinality(places) - Cardinality(places \cap OfferPlaces)
      BY <3>1, FS_Difference
    <3>. QED  BY <2>1, <3>2, Zenon DEF places
  <2>3. Cardinality(OfferPlaces) \in Nat /\ Len(providers) \in Nat
    BY <2>1, Places, FS_Subset, FS_CardinalityType
  <2>. QED  BY <2>2, <2>3, Places
<1>3. \A i \in DOMAIN offers' : offers'[i].key = providers[i] /\ Offered(providers[i])
  BY DEF OffersOfProviders, OfferPlaces
<1>4. \A i \in DOMAIN declines' : declines'[i] = providers[i] /\ ~Offered(providers[i])
  BY DEF OfferPlaces, Restrict
<1>5. {o.key : o \in Range(offers')} = {providers[i] : i \in OfferPlaces}
  BY <1>1, <1>3 DEF Range
<1>6. Range(declines') = {providers[i] : i \in rest}
  BY <1>1, <1>4 DEF Range
<1>7. OfferPlaces \subseteq DOMAIN providers
  BY DEF OfferPlaces
<1>8. Range(providers) = {providers[i] : i \in OfferPlaces} \cup {providers[i] : i \in rest}
  BY <1>7 DEF Range
<1>9. {providers[i] : i \in OfferPlaces} \cap {providers[i] : i \in rest} = {}
  BY DEF OfferPlaces
<1>. QED  BY <1>1, <1>2, <1>5, <1>6, <1>8, <1>9 DEF EveryProviderIsAnswered

\* The same when the rates cannot be had: all are declined.
LEMMA NoOffersAllDeclines ==
    ASSUME providers \in Requests, DOMAIN offers' = {}, declines' = providers, UNCHANGED providers
    PROVE  EveryProviderIsAnswered'
<1>1. Cardinality(DOMAIN offers') = 0 /\ Cardinality(DOMAIN declines') = Len(providers)
  BY Places, FS_EmptySet
<1>2. Len(providers) \in Nat
  BY Places
<1>3. Range(offers') = {} /\ Range(declines') = Range(providers)
  BY DEF Range
<1>. QED  BY <1>1, <1>2, <1>3 DEF EveryProviderIsAnswered

\* The strengthened invariant is inductive.
LEMMA RequestInductive == RequestInv /\ [Next]_vars => RequestInv'
<1>. SUFFICES ASSUME RequestInv, [Next]_vars PROVE RequestInv'
  OBVIOUS
<1>t. QueryTypeOK /\ BagTypeOK
  BY DEF RequestInv, TypeOK
<1>1. ASSUME NEW k \in Kinds, NEW keys \in Requests, NEW bytes \in Sizes,
             RefuseTooMany(k, keys, bytes)
      PROVE  RequestInv'
  <2>1. QueryTypeOK' /\ UNCHANGED <<stage, outcome>> /\ reply' = "refused"
    BY <1>1, <1>t, QueryStutters DEF RefuseTooMany, queryVars
  <2>. QED  BY <1>1, <2>1, ReceiveKeeps DEF RefuseTooMany
<1>2. ASSUME NEW k \in Kinds, NEW bytes \in Sizes, <<>> \in Requests, AnswerEmpty(k, bytes)
      PROVE  RequestInv'
  <2>1. QueryTypeOK' /\ UNCHANGED <<stage, outcome>>
    BY <1>2, <1>t, QueryStutters DEF AnswerEmpty, queryVars
  <2>2. reply' \in {"refused", "offers", "transaction", "blank"}
    BY <1>2 DEF AnswerEmpty
  <2>. QED  BY <1>2, <2>1, <2>2, ReceiveKeeps DEF AnswerEmpty
<1>3. ASSUME NEW k \in Kinds, NEW keys \in Requests, AskSize(k, keys) PROVE RequestInv'
  <2>1. QueryTypeOK' /\ UNCHANGED outcome
    BY <1>3, <1>t, QueryStutters DEF AskSize, queryVars
  <2>. QED  BY <1>3, <2>1, ReceiveKeeps DEF AskSize
<1>4. ASSUME NEW k \in Kinds, NEW keys \in Requests, NEW bytes \in Sizes,
             AskRates(k, keys, bytes)
      PROVE  RequestInv'
  <2>1. QueryTypeOK'
    BY <1>4, QueryBegins, Places DEF AskRates
  <2>. QED  BY <1>4, <2>1, ReceiveKeeps DEF AskRates
<1>6. CASE FindSize
  <2>1. providers \in Requests /\ BagSize \in 0..(Width - 1)
    BY SizesAssumption DEF RequestInv, TypeOK
  <2>2. QueryTypeOK' /\ BagTypeOK'
    BY <1>6, <1>t, <2>1, QueryBegins, BagStutters, Places DEF FindSize, lifeVars
  <2>3. TypeOK'
    BY <1>6, <2>1, <2>2 DEF FindSize, RequestInv, TypeOK, lifeVars
  <2>4. Waiting' /\ Expiry'
    BY <1>6 DEF FindSize, RequestInv, Waiting, Expiry, lifeVars, bagVars
  <2>5. Results'
    BY <1>6, <2>4 DEF FindSize, RequestInv, Waiting, Results, OffersMatch, EveryProviderIsAnswered
  <2>. QED  BY <2>3, <2>4, <2>5 DEF RequestInv
<1>7. CASE MakeOffers
  <2>1. providers \in Requests /\ UNCHANGED providers
    BY <1>7 DEF MakeOffers, RequestInv, TypeOK
  <2>2. OffersMatch(offers')
    BY <1>7, OffersOfProvidersMatch DEF MakeOffers
  <2>3. EveryProviderIsAnswered'
    BY <1>7, <2>1, OffersAndDeclines DEF MakeOffers
  <2>4. /\ DOMAIN declines' \subseteq DOMAIN providers
        /\ \A i \in DOMAIN declines' : declines'[i] = providers[i]
    BY <1>7 DEF MakeOffers, Restrict
  <2>. QED  BY <1>7, <2>2, <2>3, <2>4, UseOffersKeeps DEF MakeOffers
<1>9. ASSUME UNCHANGED <<kind, providers, size, offers, declines, answer>>, TypeOK',
             Waiting', Expiry', reply' # "offers" \/ UNCHANGED reply,
             reply' = "transaction" => UNCHANGED <<reply, transaction>> \/ AsAsked'
      PROVE  RequestInv'
  <2>1. OffersMatch(offers)'
    BY <1>9 DEF RequestInv, Results, OffersMatch, Offered, CanOffer, NeededSpace
  <2>2. EveryProviderIsAnswered'
    BY <1>9 DEF RequestInv, Results, EveryProviderIsAnswered
  <2>3. AsAsked /\ UNCHANGED transaction => AsAsked'
    BY <1>9 DEF AsAsked, Offered, CanOffer, NeededSpace
  <2>. QED  BY <1>9, <2>1, <2>2, <2>3 DEF RequestInv, Results
<1>5. CASE BagFails
  <2>1. QueryTypeOK' /\ BagTypeOK' /\ UNCHANGED <<answer, outcome>>
    BY <1>5, <1>t, QueryStutters, BagStutters DEF BagFails, queryVars, lifeVars
  <2>2. TypeOK'
    BY <1>5, <2>1 DEF BagFails, Refuse, RequestInv, TypeOK, lifeVars
  <2>3. Waiting' /\ Expiry'
    BY <1>5, <2>1 DEF BagFails, Refuse, RequestInv, Waiting, Expiry, lifeVars, bagVars
  <2>. QED  BY <1>5, <1>9, <2>1, <2>2, <2>3 DEF BagFails, Refuse
<1>8. CASE RatesFail
  <2>1. providers \in Requests /\ UNCHANGED providers /\ DOMAIN offers = {}
    BY <1>8 DEF RatesFail, RequestInv, TypeOK, Waiting
  <2>2. OffersMatch(offers')
    BY <1>8, <2>1 DEF RatesFail, OffersMatch
  <2>3. offers = <<>>
    BY <2>1
  <2>4. UseOffers(offers')
    BY <1>8, <2>3 DEF RatesFail
  <2>5. EveryProviderIsAnswered'
    BY <1>8, <2>1, NoOffersAllDeclines DEF RatesFail
  <2>. QED  BY <1>8, <2>2, <2>4, <2>5, UseOffersKeeps DEF RatesFail
<1>10. CASE CheckExpiry
  <2>1. QueryTypeOK' /\ BagTypeOK' /\ UNCHANGED <<answer, outcome>>
    BY <1>10, <1>t, QueryStutters, BagStutters DEF CheckExpiry, queryVars, lifeVars
  <2>2. TypeOK'
    BY <1>10, <2>1 DEF CheckExpiry, Refuse, RequestInv, TypeOK, lifeVars
  <2>3. Waiting' /\ Expiry'
    BY <1>10, <2>1 DEF CheckExpiry, Refuse, RequestInv, Waiting, Expiry, lifeVars, bagVars, AllOffered
  <2>. QED  BY <1>9, <1>10, <2>1, <2>2, <2>3 DEF CheckExpiry, Refuse
<1>11. CASE BuildContract
  <2>1. QueryTypeOK' /\ BagTypeOK' /\ UNCHANGED <<answer, outcome>>
    BY <1>11, <1>t, QueryStutters, BagStutters DEF BuildContract, queryVars, lifeVars
  <2>2. providers \in Requests /\ OffersMatch(offers) /\ AllOffered(offers)
    BY <1>11 DEF BuildContract, RequestInv, TypeOK, Waiting, Results
  <2>3. /\ DOMAIN transaction' = Range(providers)
        /\ \A key \in DOMAIN transaction' :
              transaction'[key] = answer[key].price /\ Offered(key)
    BY <1>11, <2>2, ContractOfAll DEF BuildContract
  <2>4. TypeOK'
    <3>1. DOMAIN transaction' \subseteq Targets
      BY <2>2, <2>3, Places
    <3>2. \A key \in DOMAIN transaction' : transaction'[key] \in Nat
      BY <1>t, <2>3, RowTypes DEF Offered
    <3>. QED  BY <1>11, <2>1, <3>1, <3>2 DEF BuildContract, RequestInv, TypeOK, lifeVars
  <2>5. Waiting' /\ Expiry'
    BY <1>11, <2>1 DEF BuildContract, RequestInv, Waiting, Expiry, lifeVars, bagVars
  <2>6. AsAsked'
    BY <1>11, <2>1, <2>3 DEF BuildContract, AsAsked, Offered, CanOffer, NeededSpace
  <2>. QED  BY <1>9, <1>11, <2>1, <2>4, <2>5, <2>6 DEF BuildContract
<1>12. CASE AgentsAnswer
  <2>1. QueryTypeOK' /\ BagTypeOK' /\ outcome = "asking" /\ outcome' # "asking"
    BY <1>12, <1>t, QueryEndsTyped, BagStutters DEF AgentsAnswer, lifeVars
  <2>2. stage = "rating" /\ reply = "none" /\ DOMAIN offers = {}
    BY <2>1 DEF RequestInv, Waiting
  <2>3. TypeOK'
    BY <1>12, <2>1 DEF AgentsAnswer, requestVars, lifeVars, RequestInv, TypeOK
  <2>4. Waiting' /\ Expiry'
    BY <1>12, <2>2 DEF AgentsAnswer, requestVars, lifeVars, bagVars, RequestInv, Waiting, Expiry
  <2>5. Results'
    BY <1>12, <2>2 DEF AgentsAnswer, requestVars, Results, OffersMatch, EveryProviderIsAnswered
  <2>. QED  BY <2>3, <2>4, <2>5 DEF RequestInv
<1>13. ASSUME UNCHANGED <<queryVars, requestVars>>, BagTypeOK', overdue' \in BOOLEAN,
              UNCHANGED named, overdue' => overdue /\ relation' = "expired"
       PROVE  RequestInv'
  <2>1. QueryTypeOK' /\ UNCHANGED <<answer, outcome>>
    BY <1>13, <1>t, QueryStutters DEF queryVars
  <2>2. TypeOK'
    BY <1>13, <2>1 DEF requestVars, RequestInv, TypeOK
  <2>3. Waiting' /\ Expiry'
    BY <1>13, <2>1 DEF requestVars, RequestInv, Waiting, Expiry, AllOffered
  <2>. QED  BY <1>9, <1>13, <2>1, <2>2, <2>3 DEF requestVars
<1>14. CASE BagLives
  <2>1. BagTypeOK'
    BY <1>14, <1>t, BagNextTyped DEF BagLives
  <2>2. overdue' \in BOOLEAN /\ UNCHANGED named
    BY <1>14, Zenon DEF BagLives
  <2>3. overdue' => overdue /\ relation' = "expired"
    BY <1>14, Zenon DEF BagLives
  <2>. QED  BY <1>13, <1>14, <2>1, <2>2, <2>3 DEF BagLives
<1>15. CASE UNCHANGED vars
  <2>1. BagTypeOK' /\ overdue' \in BOOLEAN /\ UNCHANGED named
    BY <1>15, <1>t, BagStutters DEF vars, lifeVars, RequestInv, TypeOK
  <2>2. overdue' => overdue /\ relation' = "expired"
    BY <1>15 DEF vars, lifeVars, bagVars, RequestInv, Expiry
  <2>. QED  BY <1>13, <1>15, <2>1, <2>2 DEF vars
<1>. QED
  BY <1>1, <1>2, <1>3, <1>4, <1>5, <1>6, <1>7, <1>8, <1>10, <1>11, <1>12, <1>14, <1>15 DEF Next

\* The strengthened invariant holds of every reachable state.
LEMMA RequestInvariant == Spec => []RequestInv
<1>1. ASSUME Init PROVE RequestInv
  <2>1. QueryTypeOK
    <3>1. NoRowsYet \in [{} -> Rows]
      BY DEF NoRowsYet
    <3>. QED  BY <1>1, <3>1 DEF Init, QueryInit, QueryTypeOK, Answers
  <2>2. TypeOK
    <3>1. BagTypeOK /\ overdue \in BOOLEAN /\ named \in BOOLEAN
      BY <1>1, Zenon DEF Init, BagInit, BagTypeOK
    <3>. QED  BY <1>1, <2>1, <3>1, SizesAssumption DEF Init, TypeOK, NoContract
  <2>3. Waiting /\ Expiry
    BY <1>1 DEF Init, QueryInit, Waiting, Expiry
  <2>4. Results
    BY <1>1 DEF Init, Results, OffersMatch, EveryProviderIsAnswered
  <2>. QED  BY <2>2, <2>3, <2>4 DEF RequestInv
<1>. QED  BY <1>1, RequestInductive, PTL DEF Spec

--------------------------------------------------------------------------------
(* The theorems. *)

\* Requests and the calls they make keep their types.
THEOREM RequestsTypeCorrect == Spec => []TypeOK
BY RequestInvariant, PTL DEF RequestInv

\* No provider of an offers request is passed over and none gets two answers, whatever
\* the agents answer and however often the client repeats a key.
THEOREM EveryProviderAnswered == Spec => []EveryProviderIsAnswered
BY RequestInvariant, PTL DEF RequestInv, Results

\* For every width of the sum and every size, a provider that offers has room.
THEOREM OfferedProvidersHaveRoomAlways == Spec => []OfferedProvidersHaveRoom
<1>1. RequestInv => OfferedProvidersHaveRoom
  <2>. SUFFICES ASSUME RequestInv, size <= Width - Megabyte, NEW o \in Range(offers)
                PROVE  answer[o.key].space * Megabyte >= size
    BY DEF OfferedProvidersHaveRoom
  <2>1. size \in 0..(Width - 1)
    BY DEF RequestInv, TypeOK
  <2>2. PICK i \in DOMAIN offers : o = offers[i]
    BY DEF Range
  <2>3. Offered(o.key)
    BY <2>2 DEF RequestInv, Results, OffersMatch
  <2>4. answer[o.key].space \in Nat /\ answer[o.key].space >= NeededSpace(size)
    BY <2>3, RowTypes DEF Offered, CanOffer, RequestInv, TypeOK
  <2>5. NeededSpace(size) \in Nat /\ NeededSpace(size) * Megabyte >= size
    BY <2>1, NeededSpaceHolds
  <2>6. answer[o.key].space * Megabyte >= NeededSpace(size) * Megabyte
    BY <2>4, <2>5, WidthAssumption
  <2>7. /\ answer[o.key].space * Megabyte \in Int /\ NeededSpace(size) * Megabyte \in Int
        /\ size \in Int
    BY <2>1, <2>4, <2>5, WidthAssumption
  <2>. QED  BY <2>5, <2>6, <2>7
<1>. QED  BY <1>1, RequestInvariant, PTL

\* A contract is made with all the providers asked for, at the prices of this answer.
THEOREM ContractsAreAsAsked == Spec => []ContractIsAsAsked
<1>1. RequestInv => ContractIsAsAsked
  BY DEF RequestInv, Results, AsAsked, Offered, ContractIsAsAsked
<1>. QED  BY <1>1, RequestInvariant, PTL

\* No init-contract that names the relation's user as the owner, in the form the
\* relation is stored under, succeeds for a bag expired from the request to its end.
THEOREM ExpiredBagsGetNoContract == Spec => ExpiredBagGetsNoContract
<1>. DEFINE Step == reply' = "transaction" /\ reply # "transaction" /\ kind' = "init"
                      => ~(overdue /\ named)
<1>1. ASSUME RequestInv, [Next]_vars PROVE Step
  <2>1. ASSUME UNCHANGED requestVars PROVE Step
    BY <2>1 DEF requestVars
  <2>2. CASE BuildContract
    BY <1>1, <2>2 DEF BuildContract, RequestInv, Expiry
  <2>3. ASSUME NEW k \in Kinds, NEW keys \in Requests, NEW bytes \in Sizes,
               RefuseTooMany(k, keys, bytes) \/ AskRates(k, keys, bytes)
        PROVE  Step
    BY <2>3 DEF RefuseTooMany, AskRates
  <2>4. ASSUME NEW k \in Kinds, NEW bytes \in Sizes, AnswerEmpty(k, bytes) PROVE Step
    BY <2>4 DEF AnswerEmpty, Receive
  <2>5. ASSUME NEW k \in Kinds, NEW keys \in Requests, AskSize(k, keys) PROVE Step
    BY <2>5 DEF AskSize
  <2>6. CASE BagFails \/ FindSize \/ CheckExpiry
    BY <2>6 DEF BagFails, FindSize, CheckExpiry, Refuse
  <2>7. CASE MakeOffers \/ RatesFail
    BY <2>7 DEF MakeOffers, RatesFail, UseOffers, Refuse
  <2>8. CASE AgentsAnswer \/ BagLives
    BY <2>1, <2>8 DEF AgentsAnswer, BagLives
  <2>10. CASE UNCHANGED vars
    BY <2>1, <2>10 DEF vars
  <2>. HIDE DEF Step
  <2>. QED
    BY <1>1, <2>2, <2>3, <2>4, <2>5, <2>6, <2>7, <2>8, <2>10 DEF Next
<1>2. RequestInv /\ [Next]_vars => [Step]_vars
  BY <1>1
<1>. QED  BY <1>2, RequestInvariant, PTL DEF Spec, ExpiredBagGetsNoContract
================================================================================

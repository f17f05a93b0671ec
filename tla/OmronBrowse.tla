------------------------------ MODULE OmronBrowse ------------------------------
(***************************************************************************)
(* The tag listing of the Omron client (omron/discovery.go, AllTags) beside *)
(* its other calls: the paged service 0x55; else the paged service 0x5F for *)
(* two lists of names, whose types are asked for in batches or one by one;  *)
(* else every instance in turn, by all its attributes (GAA) or one at a     *)
(* time (GAS); and that again when nothing was found.                       *)
(*                                                                          *)
(* A tag is known by its instance, and so is its type (0: unknown). The     *)
(* PLC's table does not change while it is listed.                          *)
(***************************************************************************)
EXTENDS OmronClient

CONSTANTS
  Plcs,          \* the PLCs: the tags by instance, their services, pages and reported count
  MaxPages,      \* 1000 in the code
  TypeBatch,     \* batchSize of getSymbolTypesBatched, 40
  MaxErrors,     \* maxConsecutiveErrors, 10
  MaxGasErrors,  \* maxConsecutiveGASErrors, 3
  NoCount,       \* the instances tried when the PLC reports no count, 10000
  LegacyLimit    \* those that allTagsEIPFallback tries, 1000

ASSUME BrowseAssumption ==
  {MaxPages, TypeBatch, MaxErrors, MaxGasErrors, NoCount, LegacyLimit} \subseteq Nat \ {0}

\* Service 0x55 gives an instance 16 bits; instance 0 is the class itself.
InstanceIds == 1..65535

ASSUME PlcsAssumption ==
  \A p \in Plcs :
    /\ DOMAIN p.tags \subseteq InstanceIds
    /\ \A i \in DOMAIN p.tags : p.tags[i].kind \in {"user", "system", "bad"} /\ p.tags[i].list \in {1, 2}
    /\ p.page \in Nat \ {0} /\ p.count \in Nat

VARIABLE browse  \* the listing that runs or is returned

Nothing ==
  [way |-> "none", part |-> "none", plc |-> None, list |-> 1, next |-> 0, page |-> 0,
   names |-> <<>>, types |-> <<>>, tags |-> <<>>, limit |-> 0, errors |-> 0, gasErrors |-> 0,
   short |-> FALSE]

-----------------------------------------------------------------------------
(* The PLC *)

Readable(p, i) == i \in DOMAIN p.tags /\ p.tags[i].kind # "bad"
System(p, i) == p.tags[i].kind = "system"

Listed(p, list) == {i \in DOMAIN p.tags : p.tags[i].list = list}

\* A page of a list: of the instances from one on, the first, as many as the PLC puts into an
\* answer, and whether there are more.
Page(p, ids, from) ==
  LET rest == {i \in ids : i >= from}
      first == {i \in rest : Cardinality({j \in rest : j <= i}) <= p.page}
  IN  [kind |-> "data", data |-> first, more |-> first # rest]

Offers(p, service, answer) == IF service \in p.services THEN answer ELSE Other("refused")

\* One request of the listing. "short" notes that one after service 0x55 was given up was not
\* answered as the PLC's table has it (a batch of types that fails is asked for again).
Send(truth, answers, After(_)) ==
  EipAsk(answers \cup {truth, Other("refused")},
    LAMBDA answer, done :
      LET costs == /\ browse.way # "list55" /\ browse.part # "count" /\ answer # truth
                   /\ browse.part = "multi" => answer.kind = "data"
          b == After(answer)
      IN  /\ browse' = [b EXCEPT !.short = browse.short \/ costs]
          /\ op' = IF b.part = "over" THEN [op EXCEPT !.at = "done"] ELSE op)

Over(b) == [b EXCEPT !.part = "over"]

-----------------------------------------------------------------------------
(* Every instance in turn: listSymbols and allTagsEIPFallback *)

Iterate(way, part, limit) ==
  [browse EXCEPT !.way = way, !.part = part, !.limit = limit, !.next = 1, !.tags = <<>>,
                 !.names = <<>>, !.errors = 0, !.gasErrors = 0]

Ended(b) ==
  IF b.way = "legacy" \/ b.tags # <<>> THEN Over(b) ELSE Iterate("legacy", "all", LegacyLimit)

Advance(b) == IF b.next = b.limit THEN Ended(b) ELSE [b EXCEPT !.next = @ + 1, !.part = "all"]

Found(b, type) ==
  Advance([b EXCEPT !.errors = 0,
                    !.tags = IF System(b.plc, b.next) THEN @
                             ELSE Append(@, [id |-> b.next, type |-> type])])

\* A lost link ends the listing as many errors in a row do; what was found is returned.
Missed(b, down) ==
  IF down \/ b.errors + 1 >= MaxErrors THEN Ended(b) ELSE Advance([b EXCEPT !.errors = @ + 1])

\* GAA, then GAS (its name, then its type, which may fail), until GAS has failed too often in a row.
AfterInstance(answer) ==
  LET read == answer.kind = "data" /\ Readable(browse.plc, browse.next)
      type == IF answer.kind = "data" THEN browse.next ELSE 0
  IN  CASE browse.part = "all" /\ read -> Found(browse, type)
        [] browse.part = "all" /\ ~read /\ browse.gasErrors < MaxGasErrors ->
             [browse EXCEPT !.part = "name"]
        [] browse.part = "all" /\ ~read /\ browse.gasErrors >= MaxGasErrors -> Missed(browse, FALSE)
        [] browse.part = "name" /\ read -> [browse EXCEPT !.part = "type"]
        [] browse.part = "name" /\ ~read ->
             Missed([browse EXCEPT !.gasErrors = @ + 1], answer.kind = "down")
        [] OTHER -> Found([browse EXCEPT !.gasErrors = 0], type)

AskInstance ==
  /\ At("browse") /\ browse.part \in {"all", "name", "type"}
  /\ LET service == IF browse.part = "all" THEN "all" ELSE "single"
         answer == IF browse.next \in DOMAIN browse.plc.tags THEN Data(<<>>) ELSE Other("refused")
     IN  Send(Offers(browse.plc, service, answer), {}, AfterInstance)
  /\ UNCHANGED client

\* getSymbolTableCount: the number of instances stands for the greatest one.
AfterCount(answer) ==
  Iterate("instances", "all",
          IF answer.kind = "data" /\ answer.data > 0 THEN answer.data ELSE NoCount)

AskCount ==
  /\ At("browse") /\ browse.part = "count"
  /\ Send(Offers(browse.plc, "count", [kind |-> "data", data |-> browse.plc.count]), {}, AfterCount)
  /\ UNCHANGED client

-----------------------------------------------------------------------------
(* Names by service 0x5F, then their types *)

\* A set of numbers in order, and the elements of a sequence that are in a set.
Increasing(ids) ==
  [n \in 1..Cardinality(ids) |-> CHOOSE i \in ids : Cardinality({j \in ids : j <= i}) = n]

Only(s, ids) ==
  LET at == Increasing({n \in DOMAIN s : s[n] \in ids})
  IN  [n \in DOMAIN at |-> s[at[n]]]

\* The readable names of a page, which are in the order of their instances.
Names(answer) ==
  IF answer.kind = "data" THEN Increasing({i \in answer.data : Readable(browse.plc, i)}) ELSE <<>>

\* With no user tags among the names the instances are tried.
Named(names) ==
  LET users == Only(names, {i \in DOMAIN browse.plc.tags : ~System(browse.plc, i)})
  IN  IF users = <<>> THEN Iterate("instances", "count", 0)
      ELSE [browse EXCEPT !.way = "types", !.part = "multi", !.names = users, !.next = 1]

\* Seeded fault: the second list is asked for from where the first one ended.
After5FGoesOn(answer) ==
  LET good == Names(answer)
      names == browse.names \o good
      ends == good = <<>> \/ browse.page + 1 = MaxPages
  IN  CASE ~ends -> [browse EXCEPT !.names = names, !.next = Last(good) + 1, !.page = @ + 1]
        [] ends /\ browse.list = 1 -> [browse EXCEPT !.names = names, !.list = 2, !.page = 0]
        [] OTHER -> Named(names)

\* A list ends with an error or a page without a readable name; the second one follows anyway.
After5F(answer) ==
  LET good == Names(answer)
      names == browse.names \o good
      ends == good = <<>> \/ browse.page + 1 = MaxPages
  IN  CASE ~ends -> [browse EXCEPT !.names = names, !.next = Last(good) + 1, !.page = @ + 1]
        [] ends /\ browse.list = 1 ->
             [browse EXCEPT !.names = names, !.list = 2, !.next = 1, !.page = 0]
        [] OTHER -> Named(names)

AskPage5F ==
  /\ At("browse") /\ browse.part = "list5F"
  /\ LET p == browse.plc
     IN  Send(Offers(p, "list5F", Page(p, Listed(p, browse.list), browse.next)), {}, After5F)
  /\ UNCHANGED client

\* The batch of names from the next one on.
Batch ==
  SubSeq(browse.names, browse.next,
         IF browse.next + TypeBatch <= Len(browse.names) THEN browse.next + TypeBatch - 1
         ELSE Len(browse.names))

Typed(types, part) ==
  LET b == [browse EXCEPT !.types = @ \o types, !.next = @ + Len(types), !.part = part]
  IN  IF Len(b.types) < Len(b.names) THEN b
      ELSE Over([b EXCEPT !.tags = [i \in DOMAIN b.names |-> [id |-> b.names[i], type |-> b.types[i]]]])

\* getSymbolTypesMSP: a batch that fails is asked for name by name.
AskTypes ==
  /\ At("browse") /\ browse.part = "multi"
  /\ LET truth == IF "named" \in browse.plc.services THEN Batch ELSE [i \in DOMAIN Batch |-> 0]
         After(answer) == IF answer.kind = "data" THEN Typed(answer.data, "multi")
                          ELSE [browse EXCEPT !.part = "one", !.page = browse.next + Len(Batch) - 1]
     IN  Send(Offers(browse.plc, "multi", Data(truth)),
              IF "multi" \in browse.plc.services
              THEN {Data([truth EXCEPT ![i] = 0]) : i \in DOMAIN truth} ELSE {}, After)
  /\ UNCHANGED client

\* getSymbolTypeByName: an error leaves the type unknown.
AskType1 ==
  /\ At("browse") /\ browse.part = "one"
  /\ LET After(answer) == Typed(<<IF answer.kind = "data" THEN browse.names[browse.next] ELSE 0>>,
                                IF browse.next = browse.page THEN "multi" ELSE "one")
     IN  Send(Offers(browse.plc, "named", Data(<<>>)), {}, After)
  /\ UNCHANGED client

-----------------------------------------------------------------------------
(* Names and types by service 0x55 *)

Page55Failed ==
  [browse EXCEPT !.way = "list5F", !.part = "list5F", !.next = 1, !.page = 0, !.tags = <<>>]

\* An error on any page gives up what the earlier ones brought; a page without a readable name
\* ends the list. System tags are kept.
After55(answer) ==
  LET good == Names(answer)
      b == [browse EXCEPT !.tags = @ \o [i \in DOMAIN good |-> [id |-> good[i], type |-> good[i]]],
                          !.page = @ + 1]
  IN  CASE answer.kind # "data" \/ (good = <<>> /\ browse.page = 0) -> Page55Failed
        [] answer.kind = "data" /\ good = <<>> /\ browse.page > 0 -> Over(browse)
        [] OTHER -> IF ~answer.more \/ b.page = MaxPages THEN Over(b)
                    ELSE [b EXCEPT !.next = Last(good) + 1]

AskPage55 ==
  /\ At("browse") /\ browse.part = "list55"
  /\ LET p == browse.plc
     IN  Send(Offers(p, "list55", Page(p, DOMAIN p.tags, browse.next)), {}, After55)
  /\ UNCHANGED client

\* AllTags, refused without an EIP client; whether the client says connected is not asked.
BeginBrowse ==
  /\ At("idle") /\ transport = "eip" /\ conn # 0
  /\ op' = [Idle EXCEPT !.at = "browse", !.kind = "browse"]
  /\ \E p \in Plcs : browse' = [Nothing EXCEPT !.way = "list55", !.part = "list55", !.plc = p]
  /\ UNCHANGED <<client, network>>

BrowseInit == Init /\ browse = Nothing

BrowseNext ==
  \/ Next /\ browse' = IF op'.kind = "browse" THEN browse ELSE Nothing
  \/ BeginBrowse \/ AskPage55 \/ AskPage5F \/ AskTypes \/ AskType1 \/ AskCount \/ AskInstance

BrowseSpec == BrowseInit /\ [][BrowseNext]_<<vars, browse>>

-----------------------------------------------------------------------------
(* Properties *)

\* Every page of a list that is not the last brings a name, and the pages are not too many.
PagesReach(p, ids) ==
  LET good == {i \in ids : Readable(p, i)}
  IN  /\ Cardinality(good) <= MaxPages
      /\ \A from \in {0, 1} \cup {i + 1 : i \in good} :
           LET page == Page(p, ids, from)
           IN  page.more => page.data \cap good # {}

\* The instances tried reach every user tag: there are not as many numbers without a readable tag
\* in a row before it as end the listing or, on a PLC that does not answer GAA, end the use of GAS.
InstancesReach(p, limit) ==
  LET gap == IF "all" \in p.services \/ MaxErrors < MaxGasErrors THEN MaxErrors ELSE MaxGasErrors
  IN  /\ p.services \cap {"all", "single"} # {}
      /\ \A i \in DOMAIN p.tags :
           p.tags[i].kind = "user" =>
             /\ i <= limit
             /\ \A k \in 1..(i - gap) : \E j \in k..(k + gap - 1) : Readable(p, j)

Reached(b) ==
  CASE b.way = "list55" -> PagesReach(b.plc, DOMAIN b.plc.tags)
    [] b.way = "types" -> PagesReach(b.plc, Listed(b.plc, 1)) /\ PagesReach(b.plc, Listed(b.plc, 2))
    [] OTHER -> InstancesReach(b.plc, b.limit)

\* A listing, whatever it had to fall back to, has no tag twice, none that the PLC does not have,
\* no type but a tag's own, and system tags only by service 0x55. It has every user tag, with its
\* type if the PLC tells types, unless an exchange failed after 0x55 had been given up, or the
\* table's gaps end it first: an error of 0x55 itself costs nothing. (AllTags returns no error
\* when the link is lost: what it had found by then looks like a whole listing.)
TagsFound ==
  op.at = "done" /\ op.kind = "browse" =>
    LET p == browse.plc
        ids == [n \in DOMAIN browse.tags |-> browse.tags[n].id]
    IN  /\ IsInjective(ids)
        /\ \A n \in DOMAIN ids :
             /\ Readable(p, ids[n])
             /\ browse.tags[n].type \in {0, ids[n]}
             /\ System(p, ids[n]) => browse.way = "list55"
             /\ browse.tags[n].type = 0 => browse.short \/ "named" \notin p.services
        /\ ~browse.short /\ Reached(browse) =>
             \A i \in DOMAIN p.tags : p.tags[i].kind = "user" => i \in ToSet(ids)

=============================================================================

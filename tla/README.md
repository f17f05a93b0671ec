# TLA+ models of plcio

plcio is a Go library that talks to PLCs (Allen-Bradley over EtherNet/IP and PCCC,
Siemens S7, Beckhoff ADS, Omron FINS and EtherNet/IP) and that can also play the device:
package `eipadapter` is an EtherNet/IP adapter that PLCs connect to. This directory holds
TLA+ modules of the parts where concurrency, partial failure and ordering decide whether
the code is right, the TLC configurations that check them, and TLAPS proofs.

    tlc -config AdapterConnections.cfg MCAdapterConnections.tla     (any run below)
    tlapm AdapterConnectionsProofs.tla                              (any *Proofs module)

`PROJECT.json` lists the runs, the lines each definition models, the hazards with the
properties that watch them, and, for every property, a seeded fault: an operator in the
module (its comment begins "Seeded fault") that replaces the definition after it and makes
TLC report that property.

## Inventory

| Component | State | Operations | Interacts with | What is hard | What makes it correct |
|---|---|---|---|---|---|
| **adapter connections** `eipadapter/connmanager.go`, `producer.go`, `consumer.go`, `command.go` | `byOT`, `byTO`; per Connection: identifiers, `closed`, `peerAddr`, `lastInboundAt`, `seqOut` | Forward_Open, Forward_Close, lookup, expire, closeAll, produce, receive I/O, explicit messages | sessions (handleConn goroutines) call it; one producer goroutine per connection; one goroutine reads UDP | two mutexes taken one after the other; scanner-chosen keys; state read before an unlock and used after it | a closed connection is unreachable and falls silent; an open one stays reachable |
| **adapter server** `adapter.go`, `server.go`, `session.go`, `listidentity.go` | sockets, `stopCh`, `wg`, `bySess`, `localSession` of each goroutine | New, Serve, Close, accept, RegisterSession, UnRegisterSession | spawns everything above; closeAll | shutdown order, `wg.Add` while another goroutine waits, partial binds, leaks | Serve returns exactly when its loops and its clients' goroutines have ended; handles are not shared, and leave the table with their client |
| **adapter assemblies** `assembly.go` | `bytes`, `updates`, `onChange` under an RWMutex | SetBytes, SetByte, Bytes, Updates, OnChange, receiveFromScanner, Handle | written by the application and by I/O, read by producers | byte-wise copies, callbacks after the unlock, a counter read without the lock | writes and snapshots are atomic, callbacks consistent, the counter usable for staleness checks |
| adapter objects `object.go`, `identity.go`, `tcpip.go`, `ethlink.go`, `messagerouter.go` | attribute tables fixed by New | Get_Attribute | dispatch | nothing concurrent | right bytes per attribute |
| **EtherNet/IP client** `eip/` | `conn`, `session` under one mutex | Connect, RegisterSession, SendRRData, SendUnitData, Disconnect; ListIdentity broadcast | used by logix, omron, pccc, driver | error returns that leave bytes in the stream; replies not matched with requests | a reply belongs to its request, or the connection is dropped |
| **CIP** `cip/` | sequence number of a Connection | path and message encoding, Forward_Open building, multi-service packing | logix, omron, eipadapter | offsets, padding, wrap of a 16-bit sequence | encoders and parsers are inverse |
| **Logix** `logix/` | `cipConn`, route, tag tables, templates | OpenConnection with size fallback, reads, fragmented reads, batches, writes, tag browsing, keepalive | eip, cip | fallback, partial results, multi-packet assembly | every requested tag gets its own result or error |
| **S7** `s7/` | transport (`conn`, `connected`, PDU size), `pduRef` | Connect, Reconnect, Read, Write, batching, chunking | driver | lock released during dial; size limits in two directions | chunks tile the request; one live transport |
| **ADS** `ads/` | `conn`, `connected`, symbol cache with handles, invoke ID | Connect, Reconnect, Close, Read (single and SumUp), Write, handles | driver | handles belong to a connection; two mutexes; lock released between steps | a handle is only used on the connection that granted it |
| **Omron** `omron/` | FINS transport (UDP or TCP), service ID, or an EIP client | Connect with fallback, Read, Write, batches, AllTags, Keepalive, Reconnect | driver, eip, cip | unmatched datagrams, contiguous grouping, fallback | a response belongs to its command; each address gets its words; a listing has every tag once |
| **PCCC** `pccc/` | EIP client, CIP connection, transaction number | Connect, Read, Write, discovery | driver, eip | address arithmetic, transaction matching | as above |
| **driver** `driver/` | adapters around the clients; discovery results | Create, Connect, Read, Write, DiscoverAll | all clients | parallel scans merged in any order | the best record of each device, once |
| logging `logging/` | output file, filters | log | everyone | none that another part depends on | not applicable |

Modelled today: the three adapter components in the first rows, and the five clients: ADS,
S7, Omron, Logix and PCCC, the last with its driver adapter. The EtherNet/IP client and the
CIP connection are modelled inside the clients that use them. What remains is listed in
`PROJECT.json` and under "Not modelled".

## Modules

| Module | What it is |
|---|---|
| `AdapterConnections` | the Class 1 connections of the adapter |
| `MCAdapterConnections` | instance for TLC; four configurations |
| `AdapterConnectionsProofs` | TLAPS proofs about `AdapterConnections` |
| `AdapterServer` | New, Serve, Close, clients and sessions |
| `AdapterServerProofs` | TLAPS proofs about `AdapterServer` |
| `AtomicAssembly` | what an assembly promises: atomic writes and snapshots |
| `AssemblyBuffer` | the assembly under its RWMutex, byte by byte |
| `MCAssemblyBuffer` | instance for TLC |
| `AssemblyBufferProofs` | TLAPS proofs: `AssemblyBuffer` implements `AtomicAssembly`; counter; callbacks |
| `AdsClient` | the Beckhoff ADS client: link, flag, symbol cache, handles |
| `MCAdsClient` | instance for TLC; two configurations |
| `AdsClientProofs` | TLAPS proofs about it: locks and requests, then handles, links and lost reads |
| `S7Client` | the Siemens S7 client: addresses, batches, chunks, string headers, transport |
| `MCS7Client` | instance for TLC |
| `S7ClientProofs` | TLAPS proofs about its links, writes and reads, the end of its calls, its types |
| `FoldTheorems` | induction over naturals and over the folds of `SequencesExt`, for the proofs |
| `OmronClient` | the Omron client: FINS over TCP and UDP, EtherNet/IP, grouping of addresses |
| `OmronBrowse` | its tag listing, beside its other calls |
| `MCOmronClient` | instance of both for TLC |
| `OmronClientProofs` | TLAPS proofs about the links, writes, reads and listings of both |
| `LogixClient` | the Logix client: batches, chunks, fragments, members, writes, caches, listing |
| `MCLogixClient` | instance for TLC |
| `PcccClient` | the PCCC client under the driver's adapter: bulk reads, bit writes, discovery |
| `MCPcccClient` | instance for TLC |
| `PcccClientProofs` | TLAPS proofs about what its calls return |

### AdapterConnections

State: `byOT` and `byTO` are the two maps (an absent key maps to `NoConn`); `conn` is the
array of Connection structs ever allocated; `prod[c]` is the program counter of the
producer of `c`; `sess[s]` is the request a `handleConn` goroutine is working on; `io` is
what `serveIOUDP` is doing. A step of the model is one critical section of the code, or
what runs between two of them, because that is the granularity at which goroutines can
interleave:

| Code | Actions |
|---|---|
| `handleSendRRData`, `handleSendUnitData`, `dispatch` | `RecvRRData`, `RecvUnitData`, `DispatchNoEffect`, `Reply` |
| `handleForwardOpen` | `ForwardOpenRefuse`, or `AllocateConnID` (read lock), `ForwardOpenInsert` (write lock), `ForwardOpenStart` (`go runProducer`) |
| `handleForwardClose` | `ForwardCloseRemove` (m.mu), `ForwardCloseMark` (c.mu) |
| `runProducer`, `expire` | `ProducerCheck`, `ProducerSend`, `ProducerExpire` |
| `serveIOUDP`, `handleIOPacket` | `IORecv` (lookup), `IOPeer`, `IOMark`, `IODeliver` |
| `closeAll` | `CloseAll` |
| time | `FallSilent`: the connection timeout passes |

Abstractions. Connection IDs, serial triples and sessions are model values. `lastInboundAt`
is `never`, `fresh` or `stale` (older than the timeout). `peerAddr` is known or not. What a
connection may ask for is its shape: a produce assembly, a consume assembly, both or none.
O->T IDs are chosen by the scanner: `OTDiscipline` is `any` (plcio's own client sends the
same constant in every Forward_Open, `cip/connection.go:155`) or `afterClose` (a careful
scanner). After `CloseAll` the explicit-message goroutines go on, as in the code: nothing
closes their TCP connections. Bounds: `MaxConns` structs, and the sizes of the ID sets.

Properties checked:

- `ClosedNotIndexed`, `IndexesAgree`: the two maps and the `closed` flag, which three paths
  write under different locks, stay consistent.
- `LostOnlyByOTReuse`: exactly when can an open connection drop out of `byOT`? Only when its
  O->T ID was taken by a later Forward_Open, or an earlier holder of that ID was closed after
  it opened. Nothing else (expiry, closeAll, a T->O clash) loses one.
- `ExitedMeansClosed`, `AtMostOneStaleSend`, `AtMostOneStaleDelivery`: what a close is worth.
  One packet and one datagram may still pass, because both goroutines use what they read
  before the close; never more.
- `ClosedProducersStop`, `SilentConnectionsExpire` (liveness): producers end, silent
  connections are torn down.

Two disagreements between code and comments have runs of their own:

- `connections_reuse`: scanner A opens with ID `o1`; A falls silent and is past the check in
  its producer; A is closed; a new connection opens with `o1`; now `expire` runs for A and
  deletes `byOT[o1]`, which is the new connection's entry. The new connection is open, its
  producer keeps sending once a peer is known, and neither I/O nor Forward_Close nor
  closeAll can find it. `ActiveConnectionsTracked` states the comment at
  `connmanager.go:76`.
- `connections_panic`: a Forward_Close sent as a connected message on the very connection
  it closes removes the entry before `handleSendUnitData` looks it up again
  (`command.go:87`), and the nil pointer is dereferenced. No goroutine recovers, so the
  process ends. `NoPanicWhileServing` states the comment on `Serve`. The other actions are
  guarded by `~panicked`.

Known behaviours of the code the model keeps and no property forbids: a Forward_Open
inserted after `closeAll` leaves an untracked connection with a running producer; a
connection that never heard from its scanner never expires; one without a produce assembly
has nothing that could expire it.

### AdapterServer

State: `serve` (the progress of New and Serve), the open sockets, `ctxDone`, `stopped`
(`stopCh` closed), the wait group, one program counter per socket goroutine, one per client,
and the session table. `Accept` and `Spawn` are separate steps, so that Serve can reach
`wg.Wait` between the accept and `wg.Add(1)`. `renewals` is a history variable of the requests,
not of the table: how often each client sent a RegisterSession, good or bad, within a session.

- `ReturnedMeansWaited`: when Serve returns, the goroutines in its wait group have ended (the
  three loops and each `handleConn`) and its three sockets are closed; a New that fails undoes
  its partial binds. Producers are not in the wait group and may outlive Serve; what ends them
  is the subject of `AdapterConnections`.
- `HandlesOwned`: a handle in use is in the table under its client.
- `StaleEntriesBounded`: the session of a client leaves the table whichever way the client goes.
  What stays is counted by its causes: one entry at most for each RegisterSession sent within a
  session, be it a second good one or a malformed one, and one for the return on a cancelled
  context (`server.go:46`). A path that misses `sessions.remove` leaves an entry without a cause.
- `CancelEndsServe`: cancelling the context ends Serve whatever clients do.
- `OnlyClientsOutliveClose`: after Close, Serve may wait as long as a client stays
  connected, and for nothing else. (Close does not cancel the context that `handleConn`
  looks at.)

Bounds: two clients, three handles (one client may register twice). Producers are not part
of this module: Serve does not wait for them.

### AssemblyBuffer and AtomicAssembly

`AtomicAssembly` is the abstract specification: a write, a snapshot, the registration of a
callback and the callback itself are single steps, and a write owes its callback the
contents just before and just after itself. In one thing it follows the code against the
comment on `OnChange` ("invoked when the assembly contents change", `assembly.go:116`): a
`SetByte` owes no callback. `AssemblyBuffer` is the code: lock, copy one
byte, count, unlock, call back. `Implements` is the refinement: the contents of the atomic
assembly are the bytes, or, while a write is being copied, the bytes it found; a write takes
effect when it is counted, just before it unlocks, since `Updates` takes no
lock. `SnapshotsAsNewAsCount` says that the comment on `Updates` ("Useful for
heartbeat / staleness logic") holds although the counter is read without the lock.
`ReportsAreWrites` accounts for callbacks: each owed one is made once, by its writer, with
the right pair, in any order. Bounds: two goroutines, two bytes of two values, three writes
out of five (whole, clipped, single byte, short, empty).

### AdsClient

State: `conn`, `connected`, `symbols` and `symbolsLoaded` are the fields of `Client`; `entry`
holds the `SymbolEntry` objects, which calls point to while AllTags or a second discovery
replaces them in the map; `mu` and `symbolsMu` are the mutexes. `op[p]` is the call a
goroutine is in and where it stands; `flight[p]` is the request it waits on. `c.mu` is held
from the request to the reply, so an exchange is an `Ask...` step and a `...Reply` step:

| Code | Actions |
|---|---|
| `getSymbolEntry`, `getSymbolInfo` | `Lookup`, `AskInfo`, `InfoReply`, `CacheEntry` |
| handles in `readSymbol` and `Write`, `acquireHandle` | `NeedHandle` (no lock), `AskHandle`, `AcquireReply`, `Store` (symbolsMu) |
| value by handle | `AskValue`, `ValueReply`; a Write of a read-only symbol or of a value it cannot encode: `WriteRefused` |
| `readBatch`, fallback to `readIndividual` | `AskBatch`, `BatchReply` |
| errors | `NotConnected`, `MarkDown` (flag cleared under a second lock), `ReportIfDown` |
| `AllTags` | `StartAllTags`, `AskUpload`, `UploadReply`, `UploadNotConnected` |
| `Close` | `StartClose` (both locks), `AskRelease`, `ReleaseReply`, `CloseLink` |
| `Reconnect` | `StartReconnect`, `Dial` or `DialFails` (no lock), `Install`, `AskVerify`, `VerifyReply`, `VerifyNotConnected`, `GiveUp` |

The PLC is external: per link it gives each new handle a number unused on that link
(`given`), answers a request by handle for whatever symbol the number stands for, refuses
unknown numbers, and may refuse anything. A link breaks at any moment, with an error that
`isConnectionError` knows (`dead`) or one it does not (`gone`). The history variable
`overlap` becomes true when a Reconnect has run beside another call.

- `AddressesItsSymbolApart`, `CachedHandlesCurrent`: without such an overlap, no interleaving
  of Reads, Writes, AllTags and Closes, and no broken link, sends a handle to another link or
  another symbol.
- `OneRequestPerLink`: what matching replies by order rests on, with or without overlap.
- `LostReadsReported`: the promise of `ErrConnectionLost`, for the errors the code knows.
- `NoLinkLeaks`, `NoPanicApart`: the sockets a client has open, and the unchecked
  dereference at `client.go:338`. With overlap both fail: two Reconnects leak a link, and a
  Close between `Install` and `GiveUp` ends the process.

The run `ads_stale` drops the condition: a Read acquires a handle for `a` on link 1; the
client is marked disconnected and another goroutine reconnects, clearing the cache; the Read
stores its handle in the cleared cache; on link 2 the same number is given for `b`; the next
Read of `a` returns `b`, and a Write would write to it.

Kept by the model and forbidden by no property: a failed Write never clears the flag, so
Reconnect does nothing; AllTags and duplicate acquisitions drop handles that Close will not
release; no request has a deadline, so a PLC that stops answering without breaking the link
blocks every call, IsConnected and Close included (no liveness property is stated for that
reason). Bounds: two goroutines, two symbols, two handle numbers per link, two links.
MCAdsClient has a VIEW: entry objects are identified by who points to them, and history that
no property looks at any more is ignored.

### S7Client

State: `transport`, `connected`, `pdu` and `link` are the transports a client has had, each
with its flag, negotiated PDU size and TCP link; `wire` holds answers nobody has read; `mu` is
`c.mu`; `op[p]` is the call of a goroutine. `c.mu` is held for a whole Read or Write, so the
calls queue; only a Reconnect, which dials without the lock, and the network run beside one.

| Code | Actions |
|---|---|
| `ReadWithTypes`, `ParseAddress`, the batch loop | `BeginRead` (addresses, hints and `Batches` computed), `EndRead` |
| `readBatch`, `readAddressSingle`, `parseReadResponse` | `ReadBatch` |
| `readAddress`, long | `ReadChunk` |
| `WriteWithType`, `encodeValue` | `BeginWrite` |
| `encodeStringWithRead`, `encodeWStringWithRead` | `ReadHeader` |
| `writeAddress` | `Write`, one request each |
| `Close`, `SetDisconnected`, `Reconnect` | `Close`, `SetDisconnected`, `Reconnect`, `Dial` or `DialFails` (no lock), `Install` |
| network | `Break` |

Abstractions. An address is what the regular expressions find in it; a byte is the place it was
read from; a value is its Go kind and number of elements. A read that is answered is a list of
stretches of PLC memory. The PLC is external: it may refuse, fail one item, answer an item
short or cut off the last ones (`Damaged`).

- `ReadsExact`: every address has a result; one without an error holds its own bytes, in order
  and without a gap, whatever it was batched or chunked with; a lost link is reported.
- `WritesInside`: a write touches its variable only, apart from three overruns it names:
  a string whose header could not be read, more elements than the address has, and floats
  written to a narrower type.
- `LinksAccounted`: every open link is the client's, unless two Reconnects dialled at once or a
  Close came during one (`overlap`); then one leaks, and the Close is undone.
- `CallsEnd`: no answer keeps a call going for ever (the code's limit of `total/chunk + 10`
  round trips and its refusal of empty chunks are what does it).

Kept by the model and forbidden by no property: the padding of odd items is not counted in the
size of a batch, so six `BYTE[33]` make a response one byte larger than a PDU of 240 and are
refused together; counts, block numbers and offsets are cut to the width of the request's fields
(`Addressable` excludes them); BOOL arrays can be neither read nor written; a bare area address
without a size (`M7`) is bit 0; the hint is ignored for addresses with a type letter.

### OmronClient

State: `transport` ("fins" before the first connection chooses), `up` and `conn` are the
client's fields; `flag`, `link` and `wire` belong to the sockets; `cip` says whether a CIP
connection is open. `c.mu` is held for every call, dialling included, so one call at a time is
modelled, with the network beside it.

| Code | Actions |
|---|---|
| `Read`, `ReadWithTypes`, `readFINSBatchedWithTypes`, `groupContiguousAddresses` | `BeginRead` (groups and jobs), `EndRead` |
| `readFINSGroup`, `readFINSMultiMemory`, `readFINSBits`, `sendCommand` | `ReadFins` |
| `readEIPBatched`, `readEIPBatch`, `readEIPSingle` | `ReadTags` |
| `ReadCPUStatus`, `ReadCycleTime` | `BeginStatus`, `ReadFins` |
| `writeFINS` | `BeginWrite`, `WriteFins` |
| `writeEIP` | `BeginWrite`, `AskType`, `WriteTag` |
| `Keepalive`, `GetDeviceInfo` | `Ping` |
| `Connect`, `Reconnect` | `Reconnect`, `ReconnectFails` |
| `Close`, `SetDisconnected` | `Close`, `Panic`, `SetDisconnected` |

- `ReadsExact`: each address gets its own words, whatever group it was sorted into; a group that
  fails does not disturb another; a lost link is reported. It holds until something strays onto
  the socket (`strayed`): neither the service ID nor the command of a response is compared, so
  after a datagram delivered twice, or a FINS/TCP frame whose header is refused with its body
  unread, every later answer is the one before. Only a new socket ends that.
- `WritesLand`: a write covers its address, once, and one that returns without an error was
  carried out.
- `LinksAccounted`: Close and Reconnect leave no socket behind.

Kept: over UDP connecting needs an address that can be resolved but no PLC, so the fallback from
TCP ends there whether one is listening or not;
counts are cut to 16 bits, so `DM0[65537]` reads one word and returns the rest as zeros; an
address beyond 65535 is taken as 65535; bit reads of areas without bits return bytes of words;
an item of one word read together with others comes back with Count 1; a BYTE write clears the
other byte of its word; Reconnect over EtherNet/IP returns nil although the link may have died in
its Forward_Open.

### OmronBrowse

`AllTags` over EtherNet/IP, in the same client: `OmronBrowse` extends `OmronClient` by the variable
`browse` (which service is tried, where in its list it is, what was found) and `BrowseSpec` takes
every step of both, so that a listing runs on any link the other calls leave behind.

| Code | Actions |
|---|---|
| `AllTags`, `allTagsEIP` | `BeginBrowse`, `Page55Failed`, `Ended` |
| `listSymbolsService55` | `AskPage55` |
| `listSymbolsOmron5F` | `AskPage5F`, `Named` |
| `getSymbolTypesBatched`, `getSymbolTypesMSP`, `getSymbolTypeByName` | `AskTypes`, `AskType1` |
| `getSymbolTableCount` | `AskCount` |
| `listSymbols`, `allTagsEIPFallback` with GAA and GAS | `AskInstance` |

A PLC is a table of tags (user, system or with an unreadable name) by instance, the services it
has, the size of its pages and the count it reports; instances are numbers of 16 bits, as service
0x55 gives them, from 1 on (`PlcsAssumption`). A page is the set of instances an answer has, whose
readable names the code takes in their order (`Increasing`). Any request may be refused or lose the
link.

- `TagsFound`: no tag twice, none made up, no type of another tag; every user tag unless an exchange
  failed after 0x55 was given up, or the PLC's table is one the listing cannot get through
  (`Reached`): a page that is not the last without a readable name, more than `MaxPages` pages,
  a run of missing instances as long as `MaxErrors`, or as `MaxGasErrors` on a PLC that answers
  GAS only (three deleted tags in a row then hide all tags after them), or instances beyond the
  count, which the code takes for the greatest instance.

Kept: once there is an EIP client `AllTags` never returns an error. A lost link ends the listing
with what was found, or with nothing; reads have `connErrorIfDownLocked` for this, listings do not.
System tags are filtered everywhere but in the 0x55 path.

### LogixClient

State: the session (`conn`, `wire`), the CIP connection as the client and the PLC see it (`cip`,
"stale" when only the client still has it) with `connSize`, and the caches: `info` (SetTags),
`sizes`, `templates`, `failed`. Neither the client nor the driver's adapter has a lock, so one
call at a time is modelled, as its callers must use it; each exchange, which `EipClient.mu`
covers, is one step.

| Code | Actions |
|---|---|
| `Connect`, `PLC.Connect`, `OpenConnection`, `tryForwardOpen` | `Connect`, `ConnectAgain`, `BeginOpen`, `ForwardOpen` |
| `Close`, `CloseConnection`, `eip.Disconnect` | `BeginClose`, `ForwardClose`, `Disconnect`, `Panic` |
| `Keepalive` | `BeginKeepalive`, `Keepalive` |
| `Read`, `readIndividual`, `ReadWithCount` | `BeginRead`, `BeginReadWithCount`, `ReadDirect`, `ReadBatch` |
| `GetElementSize` | `AskSize` |
| `readTagChunked`, `ReadTagFragmented` | `ReadSingle`, `ReadChunk`, `ReadFragment` |
| `readStructMembers`, `expandMemberPaths`, `GetTemplate` | `BeginMembers`, `BeginFetch`, `Expand`, `AskTemplate`, `AskDefinition`, `ReadBatch`, `ClearTemplateCache` |
| `Write`, `findMemberType`, `WriteTagCount` | `BeginWrite`, `Expand`, `AskTemplate`, `Write` |
| `AllTags`, `Programs`, `FindSymbolByName`, `listSymbolsPage` | `BeginList`, `AskPage`, `NoPath` |
| `SetTags`, `GetArrayDimensions` | `BeginSetTags`, `SetTag`, `AskBytes`, `AskDimensions` |
| the PLC drops the CIP connection | `Expire` |

A reply is complete, cut short (status 6), refused, or a transport error; or it has a foreign
session handle, and then its body is left on the socket. Nothing matches replies with requests.

- `CallsTruthful`: a value Read reports is the contents of the tag named, from its first byte, no
  byte missing or twice where replies were put together, and complete unless a request for it
  failed (`short`: after an error chunks and fragments give what they have, with no error); a
  Write that reports success was carried out.
- `TagsListedOnce`: a listing names every readable tag of a scope, once. Excepted, because the
  code ends the listing there without an error, is a page with no named entry and the last page
  allowed (`cut`); a program that cannot be browsed is passed over, and a listing that would go
  on past instance 65535 fails, for which its path has no room.
- `TypeOK` says of the caches that they do not contradict each other or the PLC, and that a CIP
  connection has one of the two negotiated sizes.

Kept: the two-byte handle ahead of a structure's data is kept in each chunk and fragment
(`Handles`); while complete replies carry less than an element `readTagChunked` never ends
(`MaxReplies`); with a CIP connection set, `IsConnected` is true whatever has become of the
socket, so `ErrConnectionLost` does not surface; every template failure but the listed
texts, a broken link's EOF included, is cached as permanent, and a template cut short as a
success; Keepalive looks at the byte before the status; results come in another order than the
requests.

### PcccClient

State: `conn` and `wire` of the EtherNet/IP client, `memory` (a few words of the PLC whose bits
are followed) and `op[p]`, the call of a goroutine. Without a lock in the client or the adapter,
calls interleave between exchanges; the PLC's program changes memory as well (`Program`).

| Code | Actions |
|---|---|
| `driver.PCCCAdapter.Read`, `pcccContiguousRuns`, `ReadAddressN` | `BeginRead` (runs cut into bulk requests), `ReadBulk`, `NilClient` |
| `Client.Read`, `ReadAddress` | `ReadOne`, `EndRead` |
| `Write`, `encodeValue`, `WriteAddress` | `BeginWrite`, `Put` |
| `writeBit` | `ReadWord`, `Put` |
| `DiscoverDataFiles`, `GetProcessorType`, `GetFileDirectory`, `parseFileDirectory` | `BeginDiscover`, `Diagnose`, `Identify`, `AskSize`, `AskSection` |
| `Connect`, `Keepalive`, `Close` | `Connect`, `Keepalive`, `Close`, `Panic` |

`CallsTruthful` has three parts. `ReadsInPlace`: each request has its own element, alone or cut
out of a bulk reply, in the order of the requests, with elements asked for twice, requests the
PLC refuses or answers short, and a client that Close takes away from a Read under way. An
element cut out of a bulk reply is whole; one read alone is the beginning of what its address
names, and all of it unless the PLC cut the reply. `WritesInPlace`: a
write that reports success was carried out, and a bit write changed only its bit unless the word
changed between its two exchanges, the window in which two bit writes to one word lose one.
`FilesFound`: the directory in sections of 80 bytes gives each file its number and type, unless
the PLC cut one of them.

Kept: `docs/allen-bradley-pccc.md` calls writes to the status words of timers and counters
blocked, but a write of one of their bits goes through; the number of elements of a discovered
file is always 0, because every layout looks for it outside the row (`Entries`); file numbers
are cut to 16 bits, integers to their word; transaction numbers are not compared, and
reads and writes answer with one command; the adapter drops the results it has when the link is
lost. The length of a single reply and of a section is not looked at, so that a section cut short
moves the rows after it. The adapter's `Close` sets its client to nil, which a `Read` of another
goroutine takes anew for each bulk request: the process ends there, or the `Read` fails if only
single reads were left.

### The EtherNet/IP client under three of them

Each of `OmronClient`, `LogixClient` and `PcccClient` has an exchange of its own (`EipAsk`,
`Ask`) translated from `eip/client.go`: without a socket it fails; a failing socket or a
deadline closes it; an answer is the oldest unread frame. A fault they share is
`unRegisterSession`: when its message cannot be sent, `sendEncap` has already set `e.conn` to
nil, and the `e.conn.Close()` after it ends the process. `Panic` is that outcome, and nothing
follows it.

## Runs

| Run | Question | States |
|---|---|---|
| `connections` | safety, two sessions, two connections, O->T IDs reused at will | 2.3 million, with symmetry |
| `connections_live` | liveness, one session | 185 thousand |
| `connections_reuse` | is every active connection tracked? violated | stops at the counterexample |
| `connections_panic` | can a request end the process? violated | stops at the counterexample |
| `server` | shutdown and sessions, safety and liveness | 212 thousand |
| `assembly` | atomicity, callbacks, counter, refinement | 900 thousand, with symmetry |
| `ads` | handles, links, flag and panics without overlapping Reconnects | 2.6 million, with symmetry and view |
| `ads_stale` | does a handle always reach its symbol? violated | stops at the counterexample |
| `s7` | do batches, chunks and string writes touch the right bytes, and does every call end? | 517 thousand |
| `omron` | does each address get its own words over all three transports, and does a listing find every tag? | 425 thousand |
| `logix` | is what Read, Write and the listings report true of the controller? | 4.0 million |
| `pccc` | is what Read, Write and discovery report true, with calls interleaved? | 5.6 million |

Why the bounds are enough. Every race found or excluded in `AdapterConnections` is between
two connections that share an identifier and at most two requests, one producer and the I/O
goroutine; two connections and two sessions give all of these, two T->O IDs give both the
clash of `allocateConnID` and its absence, and one serial triple makes Forward_Close match
either connection. `MaxConns` counts connections over the whole run, so reuse after close is
included. The liveness run has one session, because liveness excludes symmetry; a second
session adds only further requests. In the server two clients are needed for a handle clash
and for one client to hold Serve up after another has left. An assembly of two bytes is the
smallest that can tear. In `AdsClient` the races are between two calls, a stale handle needs
a link, its successor, two symbols and one shared number, and a second number lets both
symbols have handles at once. Symmetry is used only over sets whose members are compared for
equality, and only in runs without liveness properties. Deadlock is checked in every run but
`omron`, `logix` and `pccc`, where the process may end in a nil dereference.

In the clients the cases are decided by arithmetic (what fits a PDU, what follows what), so
the argument lists of the MC modules are chosen, not enumerated: each is there for a path of
the code, named in the comment above it, and the network and the PLC are nondeterministic
around them. `S7Client`: the smallest PDU a PLC negotiates (240), two goroutines, three links
(one to lose, one to reconnect, one for a second Reconnect), strings of ten characters, one
chunk answered short per long read. `OmronClient`: three sockets; groups of at most four areas
(64 in the code), batches of three and two tags (50 and 20); listings of three pages (1000), types two at a
time (40), three errors in a row, two of them of GAS (10 and 3), six or four instances (10000 and
1000), over PLCs of two to five tags that need each way. `LogixClient`: batches of three and
two tags (50 and 5), three pages (1000), twelve replies put together for one tag (no limit in the
code), nesting to depth 10 as in the code. `PcccClient`: two goroutines, of which one also
reads and discovers; 236 bytes per bulk request as in the code, and replies that the PLC may cut
to 164 bytes (in the second string of a bulk reply) or to 60 (in the first, in a string read
alone, in a section). In these last two `CallOn` is FALSE: once a frame has arrived that no
request waited for, the call that runs is followed to its end, and only Close and Connect begin
after it, since the properties speak of a stream in step. Smaller limits than the code's make the batch
boundaries happen with few tags; the code reads the limits as named constants and nothing else
depends on their values.

Fairness. The Go scheduler runs every runnable goroutine, so the steps a goroutine can take
by itself are weakly fair: the handling of a request that has been received, a producer's
loop, the handling of a datagram that has been read. Socket reads have deadlines (500 ms for
sockets, 60 s for frames), so the reads of `AdapterServer` are fair as well. Nothing is
assumed of scanners, clients, time running out, Close or cancellation. The clients' modules
assume no fairness: their requests have deadlines but nothing says how often a PLC answers, and
what their callers do next is the callers'. `CallsEnd` states termination without it, as an
action property: the requests a call of the S7 client may still make decrease with each one.

## Proofs

TLAPS proves the following for every value of the constants that satisfies the named
assumptions. These are the types of the constants, `None` and `NoClient` different from real
values, bounds that are naturals, for `AssemblyBuffer` and `S7Client` what a caller can pass
(`WritesAssumption`, `ReadsAssumption`: text the regular expressions of `s7/address.go` find, a
length, a kind of value), and for `S7Client` a PDU size of 16 bits, a declared string length of
at most 254, and that `None` is none of the results and answers it stands for the absence of
(`MissingAssumption`). For `PcccClient` they are also that a bulk request has room for two
elements of any type (236 bytes in the code, 84 for the longest element) and a reply the PLC
cuts for a word (`RoomAssumption`), and that lists of addresses and the rows of the directory are sequences
(`ListsAssumption`). TLC evaluates each of them in the runs.

No property below is inductive by itself. Each rests on an inductive invariant, which TLC
checked on the run's bounds before it was proved, and whose parts are these.

- `AdapterConnectionsProofs`: `TypeCorrect`, and from `IInv` (`InductiveInvariant`) the theorems
  `ClosedConnectionsGone`, `ProducersOutliveConnections`, `StaleSendsBounded`,
  `StaleDeliveriesBounded`; beside it `ConnectionsLostOnlyByReuse` and `IndexesStayTogether`.
  `ClosedNotIndexed` needs that an index entry names an allocated connection with that very
  identifier, and that a connection between `ForwardCloseRemove` and `ForwardCloseMark` is
  already out of both indexes although it is not yet closed. `AtMostOneStaleSend` needs the
  producer's program counter: a producer that can still send has sent nothing stale yet.
  `LostOnlyByOTReuse` needs the order in which connections were allocated. `IndexesAgree` is
  carried per connection: a step deletes no key, or the keys of one connection, and with distinct
  T->O identifiers those are nobody else's. `ShapeInvariant` is proved first, each part then one
  action at a time.
- `AdapterServerProofs`: `Invariant`, and from it `TypeCorrect` and `ReturnedWaited`. The wait
  group is the number of socket loops plus the number of clients that run (`Counted`). That
  `wg.Add` may come after `Wait` has begun does no harm because a client between accept and `go`
  belongs to a `serveTCP` that is itself still counted (`AcceptedHeld`); `Phases` says which
  goroutines and sockets each step of New and Serve leaves. `HandlesStayOwned` and `StaleEntries`
  are inductive together with the types (`SessionsInvariant`): an entry a client no longer uses
  was left by one of its RegisterSessions or, the last one, by its end under a cancelled context
  (`BoundedLeft`).
- `AssemblyBufferProofs`: `LockInvariant` (who holds the lock; how much of the copy in hand is
  done), `ImplementsAtomic` (the refinement, for every size, every set of writes and every number
  of goroutines), `StalenessLogicSound`, `TypeCorrect`, and `CallbacksReportWrites`. For the last
  (`CallbacksInvariant`) a write that owes a callback has its report in exactly one place, in
  hand or made, and the report is the pair of the log at the write's number.
- `AdsClientProofs`: `CallsInvariant`, and from it `RequestsSerial` and `PanicNeedsOverlap`,
  for any number of goroutines, symbols, links and handles. `OneRequestPerLink` needs that
  whoever has a request in flight holds `c.mu` and stands at that request's step, and that
  `Close` holds `c.mu` from its first step to its last (`Locked`). `NoPanicApart` needs that, as
  long as no `Reconnect` has run beside another call, every other goroutine is idle while one
  runs, and that the link it installed is still there when it verifies it (`Alone`).
- `AdsClientProofs`, second part: `HandlesInvariant`, and from it `TypeCorrect`,
  `HandlesAddressTheirSymbols`, `CacheStaysCurrent`, `LostReadsAreReported` and `LinksNeverLeak`.
  An entry object stands for one symbol although AllTags may replace it in the map while calls
  point to it (`OneName`). A handle that can still be used was given for that symbol on the link
  in use, or the link cannot answer it with another one any more: it is broken, or `Close` is
  releasing its handles (`Valid`, `Faithful`). While a `Reconnect` dials there is none
  (`Cleared`). A call that has met a broken link has cleared the flag, or has yet to pass the
  place where it will (`Noted`). All of these hold until a `Reconnect` has run beside another call,
  which is when `ads_stale` shows them to fail.
- `S7ClientProofs`: `Invariant`, and from it `LinksStayAccounted` and `WritesStayInside`.
  `LinksAccounted` needs that, unless two `Reconnect`s overlapped, one dials at a time, with the
  old link closed under it (`OneDials`). `WritesInside` needs how far a write is (`GoodWrite`: the
  bytes put so far are the first of the variable, and a chunked write is one that does not fit a
  PDU), that the write holds `c.mu` and so keeps its transport and PDU size (`Locked`), that
  nothing of an earlier answer lies on its link (`Connected`), and the arithmetic of an item:
  `8 * off + bit` cut to 24 bits denotes the offset meant for as long as the variable ends within
  2^21 bytes (`Addressable`), chunk after chunk. The proof found that the property was stated too
  widely before: a variable that begins below 2^21 and ends past it is written back to byte 0 by
  its later chunks. The code does that, so `Addressable` now speaks of the whole extent.
- `S7ClientProofs`, second part: `ReadInvariant`, and from it `ReadsStayExact` and
  `CallsComeToAnEnd`. `ReadInv` says of a read under way that every address has a result that is
  an error or just the first bytes it asks for (`Exact`), or is in a batch still to be sent
  (`InJobs`), and that a chunked read has the bytes up to where it is, with fewer round trips than
  its limit (`Chunked`). That it holds when a read begins is a fact about `Batches`, for every list
  of addresses (`BatchesType`); that a batch keeps it needs that an answer has one item for each
  request, of at most its length, and that an item too long for its own response makes every
  response it shares too long (`ResponseIsLong`), so that only a chunked read is bound to bring all
  bytes. `CallsEnd` counts the requests left: those of the job at the head and of the others
  (`TotalOfTail`), less the rounds made. The proof found a slip in the model of the PLC: `Damaged`
  shortened an item of no bytes to -1; an item is now never cut below its start.
- `S7ClientProofs`, third part: `TypeInvariant`, and from it `TypesHold`. The types of what a
  call collects are not inductive alone: an answer read off a link becomes its results, so
  `Holding` has the type of all that lies on the links, which an answer keeps because every item
  of a batch asks for a stretch of memory (`WholeAnswer`, `WireStays`), and that needs `ReadInv`.
- `PcccClientProofs`: `Invariant`, and from it `CallsStayTruthful`, the whole of
  `CallsTruthful`. `Inv` says what a call knows on its way, as long as nothing strayed: every
  result of a read is an error or what its address names, or is still missing
  (`Listing`), and every bulk request left asks for whole consecutive elements of one file
  (`Chunks`), so that the part of a reply an element is cut from lies where its address says
  (`ChunkPlaces`). That the requests a Read plans are such is a fact about `Runs`, `Cut` and
  `Plans`, for every list of addresses, every order of equal elements and every order of the map
  of files (`PlansType`). A bit write changes one bit of the word it has seen (`Writing`); the
  overlap of two of them is in the property, which binds it only if the word is still that one.
  The sections of a directory lie end to end while none was cut (`Sections`), and so each byte of the data put
  together is the one of the system file at its place (`BytesInPlace`), in each of the layouts.
- `FoldTheorems`: what those proofs need of the folds that `Batches`, `ResponseSize`,
  `RequestsLeft`, `Runs`, `FileJobs`, `InOrder` and `Bytes` are. The library's induction theorems
  take the formula to prove as an operator,
  which the provers cannot fill in; here it is a set of numbers (`NatSets`, from the well-founded
  order of the naturals), and a fold over the positions of a sequence is the function that its
  recursion defines (`FoldExists`, `PrefixInduction`, `SumFold`).
- `OmronClientProofs`: `BrowseInvariant`, which carries `Invariant` over to the specification
  with tag listings, and from it `LinksStayAccounted` and `WritesStayInPlace`, over all three
  transports. They need that the only socket open is the one in use (`OneSocket`), that nothing
  lies unread on it but what strayed there (`InStep`), and that a write has put nothing before
  its request and its own cell after it (`Writing`).
- `OmronClientProofs`, second part: `ReadInvariant`, and from it `ReadsStayExact` and
  `TypesHold`. `FullInv` adds to the above what a read knows on its way. Over FINS every address
  without a result is one a command to come asks for (`WordsRead`), and every group is of
  requests that follow one another in memory, at the sums of the word counts before them
  (`GroupsOf`, `Follow`); so the words cut out at `Offset` are the request's own, and an answer
  shorter than the group gives none. That the plans are such is a fact about `Orders`, `Groups`
  and `WordJobs`, for every list of addresses and every order the sort may leave equal ones in:
  a fold never drops a request from the groups it has made, and keeps each of them contiguous.
  Over EtherNet/IP the batches left are neighbouring stretches of the list (`Bounds`), so that a
  refused batch is split into all of its tags and an abort marks just the ones not read. A read
  that met a lost link says so, because its flag is down when it returns. `TypesHold` needs the
  same invariant, since what lies on a socket becomes the data of a result.
- `OmronClientProofs`, third part: `ListInvariant`, and from it `TagsStayFound`, the whole of
  `TagsFound`. `ListInv` says for each stage of a listing (`Stage`) what has been found by then. In
  a paged list, over 0x55 or 0x5F, the names found are the readable ones before the next
  instance, and each page so far has brought one (`Turning`), so that the bound on pages stops
  only a list with more readable names than that (`Complete`). While types are asked for, name
  and type stand at the same place, and a type is missing only after an exchange failed or where
  the PLC does not serve names (`Typing`). In an iteration the errors counted are a row of numbers
  without a readable tag that ends before the next instance; with GAS alone, once it has failed
  too often, such a row lies somewhere before (`Trail`). Giving up is thus one of the tables
  `Reached` excludes. `PlcsAssumption` is what it needs of a table: numbers for its instances, two
  lists, and a page with room for one.

The models' definitions that the proofs use have no CASE whose arms overlap: TLC takes the first
arm that holds, the provers may take any, so such a choice is written as IF.

Only model-checked:

- Every liveness property (`ClosedProducersStop`, `SilentConnectionsExpire`, `CancelEndsServe`,
  `OnlyClientsOutliveClose`): fairness and ENABLED are out of TLAPS's reach.
- `CallsTruthful`, `TagsListedOnce` and `TypeOK` of `LogixClient`, which has no module of proofs:
  they need an invariant over the fragments and batches of its reads and over what the pages of
  its two listings have brought, as `ListInv` is for the Omron client.

## Plan

Done: every module of the table above is checked. Every safety invariant of the adapter's three
components and of the ADS, S7, Omron and PCCC clients is proved, the tag listings of
`OmronBrowse` included. Open to proof is the Logix client.

Composition: `AdapterServer` treats `closeAll` as one step that `AdapterConnections` details;
`AdapterConnections` treats delivery into an assembly as one step that `AssemblyBuffer`
details and `AtomicAssembly` justifies.

## Not modelled

- Decoding of values (`value.go` of each client, UDTs, strings) and the encodings on the wire:
  functions without state, whose cases unit tests reach; where an encoding decides something (a
  length, a truncation, an error) the models have it.
- Discovery: `ListIdentity`, port scans, the ADS and FINS broadcasts and their merging in
  `driver/discovery.go` collect answers until a deadline and keep nothing. The recursive
  member types of `logix` are not modelled either.
- The EtherNet/IP client outside the exchanges its users make: `ListIdentityTCP` reads without a
  deadline while it holds the client's mutex.
- The other driver adapters, which hand each call to their client. The S7 adapter drops partial
  results when the link is lost, the Logix adapter's `Connect` replaces its client without
  closing it.
- The adapter's fixed attribute tables, and logging.
- Real time: durations are abstracted to before and after a timeout. Concurrent calls of
  `Adapter.Close`, which its comment excludes.

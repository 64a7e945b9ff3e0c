# A TLA+ specification of useful-pgp-agent

The repository is an agent that decrypts messages with OpenPGP smart cards
(`src/`, a few hundred lines), on top of a family of libraries for such cards
(`openpgp-card`, `card-backend`, `pcsc`, `scdc`, and others). This directory
holds TLA+ models of it, TLC configurations that check them on small instances,
and theorems with proofs that TLAPS checks for every instance.

Paths in this file are those of the repository.

## 1. The system

| Component | State it keeps | Operations |
|---|---|---|
| **known_cards** (`src/main.rs:29-62`, `src/config.rs`) | `RwLock<Vec<Card>>`: per configured card the reader it was last seen in and whether it is Ready | `init_known_cards`, `add_card`, `remove_card`, `best_card_for_decrypt` |
| **monitor thread** (`src/monitoring.rs`, `src/identification.rs`) | `reader_states`, the list of reader names | loop: drop dead readers, list readers, identify new ones, wait for a status change |
| **main thread** (`src/main.rs:84-127`, `src/decryption.rs`) | PIN_CACHE, and per request: lock guard, card, transaction | accept, choose a card, open it, get and verify the PIN, read, decrypt, reply |
| **PC/SC** (external) | readers, cards, connections, the one transaction per card | connect, transactions, status changes; other applications |
| **card-backend-pcsc** (`pcsc/src/lib.rs`) | one connection | transaction with recovery after a card reset, transmit, pinpad |
| **card-backend-scdc** (`scdc/src/lib.rs`) | a connection to scdaemon | an Assuan dialogue: `APDU`, `SCD SERIALNO`, `SCD RESTART` |
| **APDU layer** (`openpgp-card/src/ocard/apdu*`) | none | send a command, in one piece, in extended form or chained; collect a long response |
| **ocard** (`openpgp-card/src/ocard/mod.rs`, `keys.rs`, `kdf.rs`, `algorithm.rs`) | data read from the card when it was opened, the list of algorithms once it was read | VERIFY and the other PIN commands, PUT DATA, key import and generation, choice of algorithm attributes, hashing of PINs, reset to factory state |
| **openpgp-card API** (`openpgp-card/src/lib.rs`, `state.rs`) | cached application related data and KDF-DO | the same, with typestates Open, Transaction, User, Sign, Admin |
| **TLV and data objects** (`openpgp-card/src/ocard/tlv*`, `data/*`) | none | parse and serialise |
| openpgp-card-sequoia, card-functionality, examples | as openpgp-card / none | wrapper for another OpenPGP library; test scripts |

How they interact. The monitor calls `card_available` and `card_unavailable`;
both take the write lock on known_cards. The main thread takes the read lock
when it accepts a connection and keeps it until the request is done. Both
threads talk to PC/SC through contexts of their own, and each waits until a
card's transaction is free. A card can be pulled out at any time, which ends
connections and transactions with it. An `.expect` or `.unwrap` ends the thread
it is in: in the monitor that leaves known_cards as it is for good, in the main
thread it ends the process.

What is hard about it: events of the hardware between any two steps of either
thread, a reader name that is used again by another card, a lock kept over I/O,
a transaction that other applications compete for, PINs cached for several cards
at once while every wrong one costs one of three tries, requests that die half
way through, and in the libraries data cached on the host that goes stale on the
card, sequences of writes any of which may fail, and limits of the transport.

## 2. The modules

| Module | Models |
|---|---|
| `PcscWorld` | the PC/SC service as the agent relies on it (external) |
| `KnownCards` | known_cards and its four operations |
| `Monitor` | the monitor thread, over PcscWorld and KnownCards, and what a main thread may do to them |
| `MonitorProps` | properties of Monitor, the inductive invariant |
| `CardDirectory` | abstract specification: what known_cards promises |
| `MonitorProofs` | theorems about Monitor |
| `Agent` | the whole agent: clients, main thread, PIN cache, PINs and retry counters, restart, over Monitor |
| `AgentProps` | properties of Agent |
| `AgentProofs` | theorems about Agent |
| `Apdu` | one call of `send_command`, and the card it talks to |
| `CardCommand` | abstract specification: what a call of send_command promises |
| `ApduProps`, `ApduProofs` | properties of Apdu; theorems about them |
| `Kdf`, `Itersalt` | `map_pin`; the octets that `itersalt` hashes |
| `CardPins` | the PINs of a card and a session with them, over Kdf |
| `PinsProps`, `PinsProofs` | its properties; theorems about them |
| `Algorithms` | algorithm attributes, how they are chosen, the lengths in an RSA import command |
| `CardKeys` | the key slots of a card and a session with them, over Algorithms |
| `KeysProps`, `KeysProofs` | its properties; theorems about them |
| `PcscSessions` | several programs at one card through the PC/SC backend |
| `ScdPipe` | the dialogue of the scdaemon backend with gpg-agent |
| `TlvLength`, `Tlv`, `DataObjects` | the length field of a TLV; TLV trees; the data objects in them |
| `CodecProps` | what cards hold and how they write it, and what must become of it; samples for TLC |
| `CodecProofs`, `CardProofs` | theorems about all that the library writes; about all that cards write |
| `MCMonitor`, `MCAgent`, `MCApdu`, `MCPins`, `MCLibrary` | instances for TLC |
| `LibraryProofs` | theorems about PcscSessions and ScdPipe; that MCLibrary runs each of its models as it is |

The modules stand in three layers. `Agent` composes `Monitor`, `KnownCards` and
`PcscWorld`. Below what Agent calls "the PIN is verified" and "the card is read" are
the models of the library, each with the part of the card it deals with: `CardPins`
and `CardKeys` at the level of its API, where a step is a command to the card, and
`PcscSessions` where a step is a call of PC/SC. Below what those call a command are
`Apdu` and `ScdPipe`. `MCLibrary` checks `CardKeys`, `PcscSessions`, `ScdPipe` and
`CodecProps` in one run; they share no variable, and its variable `part` says which
of them moves.

### PcscWorld

`slot[r]` is what is in the reader named `r`: `Absent` (no such reader), `Empty`,
or a card. `Fits[r]` are the cards that can show up under the name: a Yubikey is a
reader with its card inside, and PC/SC names it after the product, so another one
of the same product takes over the name. `conn[r]` are the agent's threads with a
live connection, `session[r]` who holds the card's transaction. `TakeAway` loses
both. `MaxPlugs` bounds how often something is plugged in.

### KnownCards

A record is named by its nickname. The vector is a set `known` plus the `rank` of
each nickname, because records only leave the vector (`Vec::retain`) and keep
their order, which is the iteration order of the configuration's HashMap: any
order, chosen anew at every start. `AddCard` and `RemoveCard` are the two
functions, with the first match, the `break` and the `retain`. `BestCards` is
`min_by_key`, which returns the first of several minima.

### Monitor

| Action | Code |
|---|---|
| `MonitorRemove(r)` | `monitoring.rs:39-48`: callback for a dead reader, and the retain |
| `MonitorList` | `:51` list_readers |
| `MonitorPush(r)` | `:53-55` push a new name, connect to it |
| `MonitorOpen`, `MonitorIdent` | `identification.rs:36-38`: Card::new and the ident request, each in a transaction of its own |
| `MonitorReport` | `monitoring.rs:60`, `main.rs:97`: callback, under the write lock |
| `MonitorWait`, `MonitorWake` | `monitoring.rs:65-71` |
| `MonitorStops` | any `.expect` of the loop |
| `MainLock`, `MainConnect`, `MainBegin`, `MainUnlock` | what the main thread does to shared state |
| `ProcessExit`, `ProcessStart` | a panic of the main thread, or the user; start |
| `PlugIn`, `PullOut`, `OtherApp` | hardware and other applications |

`stirred` says that something happened that get_status_change will report;
`stale` is a history variable: `stale[r]` is FALSE as long as the card this
process last identified in `r` has not left the reader.

get_status_change reports a reader as gone only if it is gone when the call
looks: a reader that leaves and comes back (or is replaced) between two calls goes
unnoticed. The model has that.

### Agent

The main thread serves one request at a time:
`idle -> chosen -> connected -> open -> pin -> (prompt ->) verify -> read ->
decipher -> reply -> data -> idle`. Every step that touches shared state is one of
Monitor's `Main...` steps with the main thread's own control around it, so that
`AgentSpec` implements `MonitorSpec` (property `ImplementsMonitor`). Up to
`verify` each failure is an `.expect` or `.unwrap`, which is `Crash`; from `read` on
`decrypt` returns an `Err` that main ignores, which is `Finish("dropped")`; except
that the two `write!` calls panic again. A message is the set of cards it is
encrypted to; the OpenPGP layers inside it are not modelled. A PIN is a value, a
card counts wrong ones and blocks, `PinCacheKey` is `Card::pin_cache_key`. The
PIN pad branch of get_pin cannot be taken, because the agent builds its backend
with default reader capabilities (`decryption.rs:34`).

### Apdu

Bytes are counted, with the real limits: a transmitted APDU is the bytes
`lo`..`hi` of the command, whether it is the last of its chain, and its length
with header, Lc and Le. `Call` is the entry of send_command;
`SendChunk`/`SendWhole`/`SendRefused`/`Panic` are the ways through
send_command_low_level up to `transmit` (`apdu.rs:149-221`, `command.rs:74-148`);
`ChunkAccepted`/`ChunkRefused` its loop; `WrongLe`, `TakeReply`, `TakePart`,
`TakeWholeReply`, `TakeStatus` what send_command does with the status
(`apdu.rs:50-90`). The card is external: it refuses anything at any time, drops an
unfinished chain then, runs a command it has whole, gives its reply in parts of
any size that fits the Le it got, may ask for another Le, may be lost.
`ScdLimit` is `ScdBackend::limit_card_caps`. A reply of a card with fewer than two
bytes counts as lost.

`CardCommand` is what is left of all this for a caller: `Call`, `Run`, and then `Deliver`,
`Fail` or `Refuse`. It is the step in the models above: in `CardPins` and `CardKeys` a
command that succeeds is Run and Deliver, one that the card refuses is Fail without
Run, one whose reply is lost is Run and Fail. `ImplementsCommand` reads it off `Apdu`:
`ReplyIsThere` says whether the card still has the reply, and the history `straight`
whether all pieces were put together as they should be.

### CardPins, Kdf, Itersalt

A session with the PINs of a card, as any program of the library may have it. A call
(`VerifyUser(p)`, `ChangeAdmin(p, q)`, `SetCode(q)`, ...) maps the PINs it was given,
one after the other (`ReadKdf`, `MapNext`, `MapFails`), and sends one command
(`CommandSucceeds`, `CommandRefused`, `ReplyLost`). `cache` is the KDF-DO in the
`CardState` of the transaction (`state.rs`): it is read when a PIN is to be mapped,
and a failed read is remembered as "no KDF-DO" (`state.rs:97`). `kdf` is what the card
has; `SetKdf` and a reset change it under the cache. `CardGone` may happen at every
step, and `Begin` starts the next session with an empty cache.

A PIN the card gets is named by what was hashed: algorithm, salt and PIN
(`Kdf!Secret`), so that two are equal exactly if the digests are. `CanMap` is every
error of `map_pin`: unknown algorithm or hash, no count, a count too small, no salt
for this PIN. `Itersalt` is the loop that feeds the hash, octet by octet.

`factory_reset` is `FactoryReset`, `ResetReadKdf`/`ResetReadFails`, eight times
`ResetAttempt` or once `ResetGivesUp`, `ResetTerminate`, `ResetActivate`: the status of
the last two is not looked at (`ocard/mod.rs:711-715`). The card terminates only if it
knows the command and nobody can get in; ACTIVATE FILE then makes it blank. A code
that is typed at the reader goes to the card as it is (`VerifyByPad`); with a reader
that cannot, the backends return an error or panic (`NoPinpad`). `known` is a history
variable: the PINs that the user has reason to try, none after a PIN was set with a
KDF-DO that is not the card's.

### CardKeys, Algorithms

A call is a list of tasks, `todo`, most of them one command: key import is `list`,
`ard`, `choose`, `attributes`, `key`, `fingerprint`, `time`, in the order of
`keys.rs:182-254`. A task is done, refused (`Fail`), or the card is lost before or
after it was done (`Lose`). `ard` is the cached application related data of the
transaction, `ai` the list of algorithms cached for as long as the card is open.
A key is named by the call that made it, and its fingerprint and creation time are
too, so that `fp[s] = key[s]` says that they belong together; `Wrong` is a fingerprint
of a public key decoded with attributes it does not have. Between two transactions
another program may change a touch policy (`OtherTouch`).

`Determine` is `determine_rsa_attrs` and `determine_ecc_attrs`, with their different
matches (the last entry for RSA, the first of a curve). `RsaAnnounced` and `RsaSent`
are the two halves of the import command: the parts with the octets of their lengths,
that of the exponent an octet as it is (`ExponentLength`, `keys.rs:439-441`) and the
others by `tlv_encode_length`, and the parts with the lengths of what is sent.

### PcscSessions

Programs that use the library, and a foreign one. `Connect` opens a card, in a
transaction (`purpose` "init"); `Transaction` is `OpenPGP::new`'s (`"new"`, which
selects the application) and later `OpenPGP::transaction`'s (`"use"`). `CardWasReset`
and `Reconnect` are the loop of `pcsc/src/lib.rs:119-152`, `Reselect` is `:88-116`. A
reconnect and the end of a connection reset the card, which every other program is
told of at its next call (`told`). Histories: `lost` says that the card was reset since
a program's last transaction, `failed` that it could not select again, `left` that
the foreign program let go of the card with its own application selected and
without a reset, which the code does not look for.

### ScdPipe

`New`, `SelectBySerial`, `Transmit`, `Bye` send a command, to which gpg-agent has one
of several `Replies`, in lines. `ReadWanted`, `ReadOther`, `ReadBad`, `NoAnswer` are the
loops that look for one line; `Drain` reads the rest ("drop remaining lines"). A line
that the client cannot parse makes all but `new` return at once, with the rest of the
reply unread; `garbled` remembers that. Each line carries the command it answers.

### TlvLength, Tlv, DataObjects, CodecProps

The parsers and serialisers as operators on sequences of octets; a result that is
missing or an `Err` is the empty set. `Split` takes one TLV off the input, `TlvOf` makes
the TLV of it, and `ParseList` is `Value::parse`, a recursive function from the input
to the list of TLVs in it; the loops over the list of algorithms and over the
historical bytes (`ParseEntries`, `Compact`) and that of `itersalt` are recursive
functions, too, since nothing can be proved beside an operator that is RECURSIVE.
`DataObjects` has the accessors of
`ApplicationRelatedData` (`data.rs`), the algorithm attributes and their list, the
KDF-DO, the PW status bytes, and the `CardCaps` that `OpenPGP::new` derives from them:
none (`CapsOf` is empty) if it fails, because a part that it keeps is missing or cannot be
parsed (`CardImmutable`), though it has looked at the history for chaining before.
`CodecProps` has a card's side: `IsContent` says what a card may hold (`CardData` puts it
into data objects, `ArdOctets` writes them), with the variants that the tests of
`ocard/data/` show (with and without outer tags, padded historical bytes, a status of its
own, those of a YubiKey Neo, which end in zeros and have chaining among their capabilities,
version 2 and 3, objects for the key of the attestation or none); `IsList` says
what a list of algorithms may be, with entries that the library does not know. The
only variable is `sample`. For what the library writes itself, `AreTlvs`, `IsKdfDo`,
`IsStatus`, `IsImport` and `IsHash` say what can be written at all; TLC confirms that the
samples are such (`SamplesAssumption` of `MCLibrary`), and the theorems are about
everything that is.

## 3. Properties and runs

A reader of the code could ask:

| Property | In words | Where it could break |
|---|---|---|
| `DistinctAddresses` | no two records share an address | the retain of add_card; remove_card relies on it |
| `ReadyIsTracked` | what is Ready is watched by the monitor | order of callback and retain in the loop |
| `ReadyCardIsThere` | what is Ready is in the reader, unless the identified card has left since | identification, callback and removal are separate steps |
| `IdentifiedCardIsReady` | a card that has not moved stays Ready | another card's arrival or removal hits its record |
| `NoSharedReader` | the two threads never compete for one card | lock against tracking of names |
| `ImplementsDirectory` | known_cards implements CardDirectory | write without the lock; one card replaced by another at once |
| `PluggedCardBecomesReady` | a configured card that stays becomes Ready | lost status change |
| `ServesBestCard` | the chosen card is the best one during the whole request | lifetime of the read guard |
| `OneWrongPinPerRun` | at most one wrong PIN per run reaches any card | a wrong cached PIN |
| `PromptOncePerKey` | a PIN is typed once per cache key and run | what is cached, and when |
| `SessionsAreBounded` | a transaction is held only inside a request | the many ways a request ends |
| `ImplementsMonitor` | the main thread does only what module Monitor allows | everything above that is shown of Monitor alone |
| `EveryRequestEnds` | a connected client is answered or disconnected | lock, session, queue |
| `NewsGetsThrough` | the callback gets the write lock | the lock held over a request |
| `RunsOnceOnAllData` | a command is run at most once per call, on exactly its data | chunks; the repetition after 6Cxx |
| `ImplementsCommand` | send_command is one command to its callers: run at most once and on its data, with its whole reply or an error, and not run if refused | the loop of GET RESPONSE; an error half way through |
| `NoChainIsLeftBehind` | no call ends with part of a command left at the card | an error in the middle of a chain |
| `LineFits` | no command is too long for a line to scdaemon | header, Lc and Le on top of a chunk |
| `CallEnds` | send_command ends, if the card makes progress | the repetition after 6Cxx |
| `StoredPinIsTypable` | a PIN that was set is what the next session sends for it | salts by PIN type; a lost reply; a cached KDF-DO |
| `OnlyWrongPinsCostTries` | a PIN that is right costs no try | the same; verify_user_for_signing |
| `ResetIsComplete` | a reset that reports Ok has blanked the card | eight bad attempts of the right length; unchecked TERMINATE and ACTIVATE |
| `SlotIsDescribed` | after a call that returned Ok, fingerprint and time are those of the key | four writes, each may fail |
| `FingerprintFollowsKey` | a slot never has a fingerprint of a key it did not hold | order of the writes |
| `TouchIsAnnounced` | no attestation waits for a touch nobody was told of | the cached data |
| `PublicKeyIsDecoded` | a public key is read with the attributes it has | the cached data; attributes changed in the same transaction |
| `ChosenAttributesFit` | chosen attributes are of the key, and those of the last entry of the card's list for RSA, of the first one for a curve; without a list the slot's own say how RSA keys are sent | two matches of different kinds, the workaround of `keys.rs:373`, a guess |
| `OnlyInvalidationPanics` | `unreachable!()` of `ard()` is reached only after invalidate_cache | a read that fails |
| `CardIsRecovered` | the accessors find what the card wrote, and the list of algorithms its entries | tags inside tags, padding, two versions, unknown entries |
| `WrittenObjectsAreRead` | what the library writes, it reads | borders of the length field, optional fields |
| `ImportIsWellFormed` | the length octets of the parts of an RSA key are read as the lengths that are sent, part by part | the raw octet and the padding of the exponent, formats |
| `HashesExactly` | exactly `count` octets are hashed | the count ends inside the salt, the PIN, or between |
| `AppletIsSelected` | a transaction finds the OpenPGP application selected | resets by others between any two calls |
| `ResetIsReported` | `was_reset` is true if the card was reset since | two reconnects that undo each other |
| `ReplyIsOfItsCommand` | transmit returns the answer to its own command | lines left behind by an earlier reply |

| Run | Instance | Shows |
|---|---|---|
| `monitor_swap` | 2 reader names, 3 cards (one not configured, one under two nicknames), any card under any name, 3 plugs, exclusive access, failing calls, 1 restart | the safety properties of Monitor, `ImplementsDirectory` |
| `monitor_plugged` | 2 cards with a reader name each, 3 plugs, fairness | `PluggedCardBecomesReady` |
| `agent_docking` | 2 cards with one PIN, 2 readers, 2 clients, 2 plugs, failing calls | `ServesBestCard`, `PromptOncePerKey`, `SessionsAreBounded`, `ImplementsMonitor` |
| `agent_pins` | 2 cards with one cache key and different PINs, a PIN changed, 1 restart | `OneWrongPinPerRun` |
| `agent_live` | 2 clients, a configured card and an unrelated one whose session may never end, 2 plugs, fairness | `EveryRequestEnds`, `NewsGetsThrough` |
| `apdu_transport` | 6 kinds of card capabilities, 8 command lengths on both sides of 255, of 482 and of several chunks, replies that fit and that do not, fairness | the properties of Apdu |
| `pin_session` | 2 PINs, a card with 2 tries without a KDF-DO or with one of three (a salt for each PIN, a single salt, switched off), no pinpad or one of two kinds, 3 calls | the properties of PinsProps |
| `card_library` | 2 slots on 3 kinds of card, 2 calls; 2 programs and 2 foreign transactions; 4 commands to scdaemon; the samples of CodecProps | the properties of KeysProps, PcscSessions, ScdPipe and CodecProps |

The violation runs are listed below, with what they contradict.

Bounds. A hazard of the directory needs one name used by two cards, a card that
moves to a second name, and a third card to throw a record out: two names, three
cards, three plugs. Removing is unbounded. Two clients show a queue behind a
request; more only lengthen it. Two PINs suffice for right and wrong. One restart
shows what survives it. For a request to hold up the report of a card, and not only the
removal of one, the configured card must be Ready and the other one be identified
meanwhile: that takes the two plugs of `agent_live`. Liveness runs without calls that
fail by themselves, since a failure ends a request all too well. Clients, and readers where every card fits
each, are symmetric. The lengths for Apdu are the ones at which a length field, a
chunk or the card's announced maximum is just full or just exceeded. Three calls
show a PIN that is set, used to unlock something and replaced, or set before and
after the KDF-DO; 2 tries a PIN that blocks, and fewer than the four attempts
factory_reset makes. Two calls for one slot, one of them for the other, show a
description that outlives its key; the tasks of the calls give each of them up to
seven places to fail in. Two programs undo each other's resets already, and the
second transaction of the foreign one hits a program between reset and reselection.
Four commands to scdaemon are one to open, one that leaves lines behind and two that
could read them. The samples have lengths on both sides of every border of the
length field, all sets of keys, lists of up to three entries.

Deadlock checking is off: with every plug used up, nothing to serve and the process
down, the system rests; send_command rests after a panic; a session rests when its
calls are used up, and a sample does not move at all.

Fairness. `ThreadFairness`: the operating system runs the monitor, the RwLock lets
a waiting writer through between two readers, pcscd lets a waiting transaction
through between two others; get_status_change returns when something happened.
The main thread's letting go of the lock is assumed in Monitor and shown in Agent
(`EveryRequestEnds`). Other applications end their sessions: with all cards in
`MonitorFairSpec`, only with configured ones in `ConfiguredFairSpec` and
`AgentFairSpec`. The user answers the prompt or breaks it off; a client that has
sent nothing sends its message or hangs up. Without these two, the code waits
forever: it has no timeouts. In `ApduFairSpec` the card answers, and gives at least
a byte for each GET RESPONSE; the code would go on for ever with a card that does
not.

### Where code and documentation disagree

| Run | README or comment says | The code |
|---|---|---|
| `monitor_switching` | `README.md:5`: "SEAMLESSLY and EFFORTLESSLY switch between using two different cards" | a configured card whose reader name another card has used is deleted from known_cards and never becomes Ready again in this run (`main.rs:39-44`) |
| `monitor_unrelated` | `README.md:9`: "without randomly blocking when an unrelated card has a session open in a different application" | the monitor waits for every new card's transaction, configured or not (`monitoring.rs:55`) |
| `agent_waiting` | `README.md:9`: "without holding transactions open unnecessarily" | the transaction is open during the PIN prompt and while the client has sent nothing (`decryption.rs:73`) |
| `apdu_short` | `command.rs:146`: `unreachable!("This should not happen")` | for a card with extended length, GET RESPONSE and the repetition after 6Cxx ask for a short Le in an extended APDU: a panic (`apdu.rs:53`, `:68`) |

Others were met while modelling and have no run of their own.

* `src/lib.rs:6` calls the application identity "our main ID to join configuration
  with reality", but get_card connects by reader name and asks for no identity
  (`decryption.rs:30`). `ReadyCardIsThere` says how long the name is good for: until
  the identified card leaves. Between that and the monitor's report, whatever card is
  in the reader is asked for the PIN of the record.
* A reset that has been answered with a reconnect is forgotten if the reselection
  fails (`pcsc/src/lib.rs:107`) or the second attempt at a transaction does: the next
  transaction neither selects nor reports. `AppletIsSelected` and `ResetIsReported`
  claim nothing then (`failed`).
* factory_reset takes an error in reading the KDF-DO for a card without one
  (`ocard/mod.rs:661`) and does not look at the answers to TERMINATE DF and ACTIVATE
  FILE, so it can report Ok for a reset that did not happen. `ResetIsComplete` says
  when it cannot.
* With extended length a chunk carries `max_cmd_bytes` bytes of data (`apdu.rs:154`),
  so that its APDU is up to 9 bytes longer than `card-backend/src/lib.rs:128` ("Maximum
  number of bytes in a command APDU") allows. `LineFits` shows that the reserve of
  `scdc/src/lib.rs:52` is just enough for these 9 bytes, to the character.

## 4. Proofs

`MonitorProofs` proves of `MonitorSpec`, for all readers, cards, nicknames,
configurations and bounds that satisfy `WorldAssumption`, `ConfigAssumption` and
`MonitorAssumption`: type correctness, `DistinctAddresses`, `ReadyIsTracked`,
`ReadyCardIsThere`, `NoSharedReader`, `IdentifiedCardIsReady` and
`ImplementsDirectory`.

None of these is inductive. `MonitorInv` adds:

* `PhaseOK`: when `cur` and `found` are set; a process that is down remembers nothing;
* `Shadowed`: of two records for one ident only the first ever gets an address
  (otherwise a retained second record could keep the address of the first);
* `PendingIsNew`: the reader being identified is tracked and nothing is on offer
  there. That is why the callback cannot replace one card by another, and why the
  monitor never meets the main thread;
* `FoundIsThere`: what is about to be reported is still true unless the card left;
* `ConnectionsOK`: the main thread is connected only under the lock and only to Ready
  addresses, the monitor only to `cur`.

The proof has one lemma for each variable group and action (`AddCardEffect` and
`RemoveCardEffect` say what the two operations do, in terms of the first match,
whose existence is `FirstIsFirst`); `StepInv` puts the steps together.

`IdentifiedCardIsReady` needs more, `IdentInv`: readers that are not tracked, that are
about to be forgotten or that are being asked for their card hold none that is known
to have stayed (`StaleOK`), and no card is in two readers (`CardsAreUnique`). The step
to show is that the report of one card does not throw out the record of another:
`AddCardEffect` says that AddCard removes only records with the reported reader or ident.

`KnownCardsAreADirectory` maps each step to one of CardDirectory or to a stutter.
`OfferMeans` says what the mapped state is in terms of the records; a report is
`Appear` (`ReportAppears`), a removal `Vanish` (`RemoveVanishes`), everything else keeps
what is on offer. It rests on `PendingIsNew` (nothing on offer is replaced in one step),
`Shadowed` and `DistinctAddresses`.

`AgentProofs` proves of `AgentSpec`, for all clients, PINs and bounds, the properties of
AgentProps and, as `AgentIsAMonitor`, that it implements `MonitorSpec`, so that all the
theorems above hold of the agent; `AgentKeepsTheDirectory` is one such. `AgentStepIsMonitorStep` is
immediate for most actions, which contain their `Main...` step; the work is in
those where a request ends (`EndingEffect`, `FinishingEffect`). `AgentInv` adds
`ControlOK` (the lock is held exactly while a request is served) and `PromptsOK` (every PIN
typed in this run is in the cache, but for the one on its way to the card).
`OneWrongPinPerRun` is inductive with them: a wrong PIN ends the process.

`ApduProofs` proves of `ApduSpec`, for every set of capabilities and all lengths
(`ApduAssumption`: what a u16 counts; a card takes an APDU of 5 bytes, GET RESPONSE):
`RunsOnceOnAllData`, `NoChainIsLeftBehind`, `ImplementsCommand`, and, for capabilities
limited by `ScdLimit`, `LineFits`. `ApduInv` says, for each place send_command can be
in, what the card has of the command (`SendInv`, `CardInv`, `ChunkInv`) and what it
has given of its reply (`ReplyInv`, `GetInv`). The step that is not obvious is
`SendRefused`: a chunk is never too long for Lc (`ChunkSize`), so that a call can be
refused only before anything was sent. `TypeStep` needs `GetInv`, which knows that a
part of a reply has no negative length. `ApduIsACommand` is the refinement: most
steps are `Hidden`, since between call and return what was sent, run and fetched fits
together (`GoingOn`); the return is `Deliver`, `Refuse` or `Fail` by its outcome
(`ReturnStep`); and a card that refuses GET RESPONSE `Forget`s the reply.

`PinsProofs` proves of `PinsSpec`, for all PINs, KDF-DOs, tries and any number of calls:
`PinsTypeOK`, `StoredPinIsTypable`, `OnlyWrongPinsCostTries`, `ResetIsComplete`.
`PinsInv` says of a call what was mapped so far and with what (`MapInv`), of a command
that what it carries was mapped by the cached KDF-DO (`SendInv`), of the card that its
secrets have the length the KDF-DO names (`HashInv`), and of a reset how many tries are
left after so many attempts (`ResetInv`). The last is why a reset that gets as far as
ACTIVATE FILE has blocked both PINs: bad attempts of a length that fits cannot be free
(`BadPins`).

`KeysProofs` proves of `KeysSpec`, for all slots, kinds of cards, lists and any number of
calls: `KeysTypeOK`, `SlotIsDescribed`, `FingerprintFollowsKey`, `PublicKeyIsDecoded`,
`TouchIsAnnounced`, `OnlyInvalidationPanics`, `ChosenAttributesFit`. `WellPlanned` says
which tasks a call may have left and what comes before what; every call begins so (`CallsArePlanned`) and every
tail of such a list is one (`TailIsPlanned`). `Making` and `Reading` then say: what is
no longer on the list has been done. `CacheInv` relates the cached data to the card.
`DetermineFits` is about the choice of attributes alone, for any list; `ChoiceInv` adds
that a call that has chosen does not read its list again, and that writing the attributes
leaves the slot with the format they were chosen for (`PutKeepsForm`).

`LibraryProofs` proves, for any number of programs, `AppletIsSelected` and
`ResetIsReported` (a program that has not been told of a reset finds the application
selected, `SelectedInv`), and for any number of commands `ReplyIsOfItsCommand` (the unread
lines are the rest of one reply, `RestOfReply`). Its last part is about `MCLibrary`, which
checks four models in one run: `LibraryRunsItsParts` says that each of its behaviours
is one of `KeysSpec`, of `SessionsSpec` and of `PipeSpec`, so that the run checks what the
theorems are about, and `LibraryTypes` follows; `LibraryCodes` says that every sample is
of a kind the theorems on codecs are about (`SamplesAreKnown`), which shows that
nothing in their hypotheses is out of reach.

`CodecProofs` proves what TLC sees of samples only, for every content:

* `EveryLengthIsRead`: the length field of every length of sixteen bits is read back,
  whatever follows it. This is the base of the next.
* `WrittenObjects`: `WrittenObjectsAreRead` of every tree of TLVs with tags the parser
  can delimit and values below 2^16 octets (`AreTlvs`), every KDF-DO (`IsKdfDo`), all PW
  status bytes, and all attributes with a modulus below 2^16 and an exponent below 2^8
  bits. A tag, a length and a value in front of other octets are split off again
  (`SplitWhole`); from that, a list of TLVs is read back by induction on the length of what it is
  written as, and `TreeRead` follows. The fields of a KDF-DO that are missing leave no
  trace (`OptionsListed`), and each is found under its tag.
* `ImportsWellFormed`: the length octets of each part of an RSA key are read
  (`ParseLength`) as the length of what is sent, for every modulus, provided that a prime
  has half its length and the exponent at most 1016 bits (`IsImport`). The code takes both
  for granted: it does not pad primes, and an octet as it is announces no more than 127
  (`ExponentLength`; `keys.rs:440` expects 3 or 4). Whatever `EncodeLength` writes is read by
  `EveryLengthIsRead`, and the octet of the exponent by `Exponent`; `JoinedAlike` adds the
  parts of the formats.
* `HashedExactly`: what `itersalt` hashes is salt and PIN, repeated and cut off.
  The invariant of the loop is that the rest to be hashed is that pattern from
  the salt on, or from the PIN on; whether salt or PIN is empty makes no difference.

`CardProofs` proves `CardIsRecovered` (`CardsRecovered`), of every card whose content is as
`IsContent` says, and every list that `IsList` allows. The argument has three parts:

* What the card writes is a list of TLVs with the tags of the data objects, or of one
  TLV that holds them (`ArdRead`). Such a list is read back by `ListRead` of `CodecProofs`;
  then each part is what was under its tag, since no two objects have the same
  tag and those that are only containers have other ones (`ArdTag`, `PartShown`).
* The parser of each object returns what the card made it of: `AidRead`, `KeysRead`
  (zeros are no key), `CapabilitiesRead`, `CardAttributesRead`, `UifRead`, `PwRead`, `EliRead`
  and, with the most cases, `HistoryRead`: padding is taken off and no more than
  that (`NotPadded`, `IsPadded`), the status that one card sends is repaired
  (`StatusRepaired`), and the compact TLVs are read in the order they come in; the zeros
  at the end of a Neo's are compact TLVs that say nothing (`CompactZeros`, `NeoRead`).
* `FingerprintRecovered`, `TimeRecovered`, `AttributesRecovered`, `TouchRecovered` and
  `CapsRecovered` put the two together; the last shows that every part `OpenPGP::new`
  insists on is there and is read (`CardImmutable`). In a list `EntryRead` reads the first entry, and
  `ListOctetsRead` all of them, by induction on their number; a wrapped list is not
  taken for a plain one, since its tag is none of an entry (`ListRecovered`).

The induction theorems of the library take an operator, which the provers here cannot
instantiate; `Induction` is one about the set of the numbers that have a property, and
follows from the well-foundedness of `<`. A recursive function is given by a CHOOSE, and
that it satisfies its own equation needs a proof: `ParseListUnfold` builds one up to each
length of the input and shows that two of them agree. `Recursion` of `CardProofs` does so for
every body that calls itself for shorter inputs only; `CompactUnfold` and
`EntriesUnfold` are uses of it. `HashedUnfold` shows that the pattern satisfies the
equation, and that nothing else does.

Model-checked only: liveness (`PluggedCardBecomesReady`, `EveryRequestEnds`,
`NewsGetsThrough`, `CallEnds`), since the prover has no fairness. Every other property of
the passing runs is stated by a theorem.

## 5. Not modelled

* `pw1`, `pw1_sign` and `pw3` of a transaction (`openpgp-card/src/lib.rs`): they are set and
  never read.
* The cryptographic operations (PSO, INTERNAL AUTHENTICATE, MANAGE SECURITY
  ENVIRONMENT, GET CHALLENGE): one command each, without state on the host; what the
  agent needs of them is in `Agent`, their transport in `Apdu`.
* Setters and getters of plain data objects (cardholder data, login, URL, private
  objects, certificates), the security support template, and printable forms: octets
  are handed through.
* `open_by_ident` (`openpgp-card/src/lib.rs:112`): a search over the cards, which the agent
  does not use.
* The structures of pinpad requests and the enumeration of readers in
  `pcsc/src/lib.rs`: layout and I/O. What a pinpad does to the PIN is in `CardPins`.
* That two programs whose reconnects reset the card come to an end with it
  (`pcsc/src/lib.rs:138`): without fairness between them at pcscd, for which the code
  cannot ask, they need not.
* Nesting of OpenPGP messages (`decryption.rs`): a message is the set of cards that can
  decrypt it.
* `openpgp-card-sequoia`, `card-functionality` and the examples (not in the workspace of
  `Cargo.toml:5`): a wrapper with the same states, and sequential scripts.
* `openpgp-card-rpgp`: a submodule whose files are not in the repository.

What could follow: the commands of `CardPins` and `CardKeys` as steps of an instance of
`CardCommand` each, and the crypto operations of a signing and a decrypting session with
the access each of them needs.

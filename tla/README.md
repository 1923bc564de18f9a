# TLA+ models and proofs for the term collection

The repository holds three programs that share no code: a DNS relay (C, libuv),
a Pokemon battle game with client and server (C++, Qt), and a travel emulator
(C++, Qt, QML). This directory holds TLA+ models of them, the TLC configurations
that check the models on small instances, and proofs that TLAPS checks for every
instance.

Run a check with `tlc -config DnsRelay_routing.cfg MCDnsRelay`, a proof with
`tlapm DnsRelay_proofs.tla`. `PROJECT.json` lists the runs, ties each definition
to the lines it models, and names for each property a mutant of the code's model
that the property rejects.

## 1. Inventory

### 1.1 DNS relay (`src/DNS_Server/DNS_Server/src`)

One thread: libuv calls a handler for each packet, and no handler waits. So a
handler is one atomic step, and what interleaves are packets.

| part | state | operations | hard because |
|---|---|---|---|
| hash table (`hash_table.c`) | heads, malloc'ed nodes with `key`, `value`, `prev`, `next` | insert, find, remove by node | `prev` is not always the predecessor; nodes borrow their keys; freed memory comes back |
| relay (`main.c`) | `idTable` and `idRowCount`, `dnsTable` and `dnsRowCount`, the hash table, two sockets | load `dns_table.txt`, answer (PTR or cached), forward, drop an expired row, take or drop an answer | answers are lost, late, duplicated, reordered; both tables are rings that overwrite rows in use; a clock that starts again every month |
| helpers (`utils_helper.c`, `ini_handler.c`) | none | byte order, URL and address parsing, time, one setting from `config.ini` | - |

What makes it correct: an answer goes to the client that asked, under the id it
used; the address belongs to the domain it asked for; blocked domains stay
blocked; late answers are dropped; the table never links to freed memory.

### 1.2 Pokemon game (`src/Pokemon`)

The server is one Qt event loop over MySQL and TCP; each message of a client is
one slot call. The client is another event loop.

| part | state | operations | hard because |
|---|---|---|---|
| sessions (`ServerBackend.cpp`, `User.cpp`) | `m_userList` (socket, name, status, chosen Pokemon), the data base | sign up, log in, query, disconnect | a name can be logged in twice; copies of `User` leave members uninitialised |
| battles (`ServerBackend.cpp`) | `m_battleFieldList`, raw pointers to users | invite, answer, operate, give up, transfer | a user in two battles; a battle deleted while a loop still uses it; a user removed while a battle points to it |
| turn engine (`BattleField.cpp`, `PokemonSkill.cpp`) | hp, speed, buffs of both sides, chosen actions | `setAction`, `turn`, `queryBuffList`, `handleResult` | buffs are removed while a loop runs over them; order of effects |
| growth and storage (`PokemonBase.cpp`, `StorageHelper.cpp`) | experience, level, rows of the data base | gain experience, save, transfer | user lists that are stale after a transfer |
| framing (`NetworkHelper.cpp` of both sides) | bytes of the socket, a static length | read, reconnect | messages that arrive in pieces; state that survives a reconnect |
| QML interface, protobuf, MySQL | - | - | out of scope |

What makes it correct: a user is in at most one battle, and BATTLING exactly
while in one; every battle that begins ends for both sides; no slot follows a
pointer to a user that is gone; hp stays within bounds; effects end when they are
due.

### 1.3 Travel emulator (`src/TermWork_DS/src/Backend`)

Three threads without a lock between them: the interface, a worker that runs the
clocks and the traveller, and the logger.

| part | state | operations | hard because |
|---|---|---|---|
| clock and traveller (`BackendBase.cpp`, `Customer.cpp`) | two clocks, a queue of timed tasks | tick, update status, query, set off, pause, continue | two clocks that drift and are reset; a task is only taken when its minute is hit exactly; no lock between threads |
| route search (`AlgorithmHelper.cpp`) | - | a search by the risk of the last ride, within a time limit | integer risk, departures of every day, two loops that say the same in different words |
| log (`Logger.cpp`) | a queue, a mutex, a running flag | append, write, stop | entries that are not written when the program stops |
| data models, QML | tables read once | read | - |

What makes it correct: a route can be travelled, within the limit, and is found if
there is one; a traveller that set off misses no departure and arrives; the two
clocks agree; every entry that was logged is written.

## 2. Modules

| module | models | state |
|---|---|---|
| `HashChain` | `hash_table.c` as operators on its memory | - |
| `DomainMap` | what `main.c` expects of the hash table (abstract) | `map` |
| `HashTable` | the life of the table, as `main.c` drives it | `node`, `alloc`, `line` |
| `DnsRelay` | the whole relay on top of `HashChain`, with clients, the network and a clock | see below |
| `ServerBackend` | the Pokemon server's users and battles, each handler as an operator on its state | - |
| `PokemonGame` | the clients around `ServerBackend`, with their pages and connections | `server`, `client` |
| `Lobby` | what the Pokemon server promises (abstract) | `opponent` |
| `Pokemons` | a Pokemon: skills, what its type adds, growth, as operators | - |
| `BattleField` | battles one after the other: turns, effects, both screens, experience | `battle`, `rows`, ... |
| `Duels` | `BattleField` with what a duel costs: tables of Pokemon, lists, offers | `tables`, `list`, `offer`, ... |
| `Framing` | messages as bytes on both sides, connections that break and come back | see 2.5 |
| `Channel` | what a connection promises (abstract) | `sent`, `got`, `spoiled` |
| `RouteSearch` | the search for a route and the tasks it gives, as functions | - |
| `TravelEmulator` | interface, worker and logger around `RouteSearch` | see 2.6 |
| `HashChain_proofs`, `HashTable_proofs`, `DnsRelay_proofs`, `PokemonGame_proofs`, `BattleField_proofs`, `Framing_proofs`, `TravelEmulator_proofs` | theorems about these | |
| `Induction` | lemmas: induction over numbers, folds, recursive functions and loops | - |
| `MCHashTable`, `MCDnsRelay`, `MCPokemonGame`, `MCBattleField`, `MCFraming`, `MCTravelEmulator` | instances for TLC | |

### 2.1 HashChain, HashTable, DomainMap

A memory is a function from nodes to records. A head is named by its bucket, any
other node by its address. `alloc` is the set of addresses that are malloc'ed;
`free` takes an address out of it and leaves the contents, and `InsertHashItem`
may get any free address back, so a pointer to freed memory can meet a new node.
`ELFHash(key) % size` is the constant `Hash`: which keys collide decides what
happens, and every function is allowed. The 64-bit build makes collisions
common: `ELFHash` shifts by `sizeof(size_t)`, and the 206 domains of
`dns_table.txt` fall into 39 of the 1024 buckets, 30 of them into one.

The loops of the C code are recursive functions over the nodes. A chain that
closed on itself would make them endless; the actions have a guard for it
(`Endless`), and `ChainsIntact` shows that it never bites on the instances.

`HashTable` has the three ways the relay uses the table: a line of the file is
loaded, a row is cached when a lookup misses, and a node is removed when its row
has expired. A key is here the domain itself. `DomainMap` says what the users of
the table expect: a map. Its `ExactSpec` is a map and its `LossySpec` is a map
that may forget. The refinement is `map[k] = FindValueByKey(k)`.

### 2.2 DnsRelay

| variable | code |
|---|---|
| `idTable`, `idRowCount` | `idTable` (`prevID`, `client`, `url`, `joinTime`), `idRowCount` |
| `dnsTable`, `dnsRowCount` | `dnsTable` (`Domain`, `Data`, `TTL`), `dnsRowCount` |
| `node`, `alloc` | `dnsHashTable`; keys are references to `idTable[i].url` or `dnsTable[j].Domain`, as in C |
| `line` | progress of `loadDNSTableData` |
| `open` | sockets that are not closed |
| `now` | system time; `ToSecond == now % Month` |
| `net` | queries on their way to the server and answers on their way back |
| `reply` | the packet that the last step sent to a client, with the question that caused it |

| action | code |
|---|---|
| `LoadRow` | one line of `loadDNSTableData` |
| `PtrRequest`, `CacheHit`, `Forward` | the three ways through `onReadRequest`; `Forward` removes an expired node first |
| `DropLate`, `PassAnswer` | the two ways through `onReadResponse`; `PassAnswer` stores each A record |
| `ReadError` | `nread < 0` in either handler: the socket is closed |
| `Tick` | a second goes by; packets older than `Lifetime` are gone |

`cause` in a reply and `client`, `id`, `sent` in a packet are history: no action
reads them to decide anything, they only make the properties sayable. An address
is represented by the domain it belongs to.

### 2.3 ServerBackend, PokemonGame, Lobby

Every message a client sends is one slot call on the server's only thread, so
each handler is one operator from the state of the server to the next:

| field of `server` | code |
|---|---|
| `heap` | the `User` objects by address: name, socket, status |
| `userList` | `m_userList`; Qt's list keeps the address of a large element while it is in the list |
| `battles` | `m_battleFieldList`: pointers to both users (`b = Null` for the server) and which sides have acted |
| `out` | per client, what the server has sent and the client has not read |
| `up` | false once a null pointer was followed or the list read beyond its end |

A `User` that is deleted keeps its contents while a battle can still read them,
until a later login gets the memory. `Garbage` is what the status of a user may
read as after login, because the copy constructor leaves it uninitialised. Any
value that is not BATTLING acts like IDLE.

`HandleBattleOperation` runs over all battles and may delete one while it does;
`OperationPass` is one pass of that loop. `UserDisconnected` and `BattleGiveUp`
both search for the first battle of a name (`SearchStop`), with the names each of
them compares. A turn is here its outcome: one or two attacks and whether it was
the last. After a deleted battle the code still reads its `userB` (line 943);
as long as freed memory keeps its contents that is no null pointer and nothing
happens.

A client is on one of three pages, possibly behind the modal `LoadingPopup`
(`waiting`), with an invitation shown (`popup`). `InviteTo`, `Accept`, `Refuse`,
`Act`, `GiveUp` are its buttons, `Receive` reads the next message, `Leave`
closes the program, `ConnectionLost` breaks the connection: the client connects
again by itself, but never logs in again. Either runs `UserDisconnected` as it is;
`Leaves` says what a player may be doing then (`Doing`: fighting, waiting for the
start of a battle, or neither), and each run says which it allows. A request takes effect when it is sent
and an answer may wait as long as it likes; since a connection keeps the order in both
directions and the server is one thread, every real order is one of these.

The model assumes that `invitePopup`, an item of the main page, cannot be
answered from the battle page above it. If it could be, a player that is invited while
he waits for his own invitation could begin two battles.

`Lobby` has for each player his opponent. The mapping is `Opponent`: the other
side of the battle that `m_battleFieldList` holds for a name.

### 2.4 Pokemons, BattleField, Duels

`Pokemons` has the skills of `PokemonSkill.cpp` as records of what they do to
whom, `Attack` with the rules of the four types, and `Gain` (`gainExperience`).
Chance is a set of outcomes. All arithmetic is on integers; for the numbers of the
instances it comes to what the doubles of the code come to (0.7 of a number
differs for the first time at 90). A defence of 0 makes the damage an infinite
double, and what an int becomes of it is up to the build: the constant
`BeyondInt`, on x86 the least int.

| `BattleField` | code |
|---|---|
| `battle.pkm[s]` | `m_pkm[s]`: level, hit points, properties with and without effects, `buffs` |
| `battle.action`, `battle.winner` | `m_act`, the winner `slotGetBattleResult` is told |
| `battle.screen[s]` | what the client of side s shows for his own Pokemon and the other |
| `rows` | what the data base holds of the Pokemon that fight |
| `SetAction` | `HandleBattleOperation`: a choice, and the whole turn (`Strike` twice, `queryBuffList`, the result) once both have chosen |
| `StartBattle` | the same two meet again, with what was stored |

`gained`, and `given`, `felt` and `gone` of the buffs, are history.

Each strike gives both sides a buff, which is empty if the skill has none. At the end
of a turn `queryBuffList` goes through the list from the last to the first; when
a buff ends it is removed and the index goes down twice. `Visited` are the
buffs the loop so comes to; only they take effect and count down. The properties
are restored before the loop, so a strength effect that is left out is off for the
turn that follows, though still on the list. `Lasting` are the effects that need no
visit: `handleResult` looks for them on the list. `felt` counts the ends of turn at
which an effect was at work in one way or the other.

`Duels` adds the end of a duel. `tables` are the tables `user_<name>`; a Pokemon
is known by the first row it had, so that copying a row and deleting the old one
does not change who it is. `list` is `m_pokemonList` of a session, which
`updateUserInfo` makes longer every time. `DuelLost` offers the loser up to three
places of his list (`Ids` is in an order that nothing is known of, as the query
has no ORDER BY), `TransferPokemon` gives one away, `Login` begins a new
session. `up` is false once the description of a Pokemon that was not made has
been set: `CreatePokemon` calls `set_desc` before it looks whether it made one.
That may happen at a defeat (`DuelLost`) and at the answer to an invitation
(`Answered`): B answers with a Pokemon of his client's list, `shown`, which a
transfer does not renew (`RefreshList` and a login do), and the User of A remembers
the one A chose (`invitation`), unless A left and logged in again: the copy of a
User leaves `m_battlePkmId` out, and what the memory holds is taken as no id of his.
A battle against the server begins at once with a Pokemon A has just been shown. A rematch
is between the Pokemon that fought before; other pairs are other elements of
`Matches`.

### 2.5 Framing, Channel

A message is its length and as many bytes. A byte of the model knows its message, its
place in it and the length that was announced, so that a reader that is not at
the beginning of a message can be seen to read something else (`Stray`).

| variable | code |
|---|---|
| `state`, `link`, `links`, `m_status` | the client's socket, its connection, and what `NetworkHelper` believes |
| `reader` | the client: bytes available, and the static `flag` and `length` of `readyRead` |
| `toClient`, `toServer` | bytes under way, per connection |
| `m_clients`, `arrived`, `accepted` | the server's connections and what they have available |
| `sent`, `got`, `said`, `heard` | messages in both directions, as sent and as handed on (history) |
| `stale`, `cut` | connections of which nothing is promised any more, with the reason (history) |

One `readyRead` or `slotReadClient` takes any number of bytes and runs its loop
to the end. `checkAndReconnect` is the timer of 10 s, `connectionTimeout` the one
of 3 s; as 3 < 10 an attempt is always given up before the next. `Unanswered` is
an attempt nobody answers. `Channel` promises the next messages whole, once and
in order, until the connection is spoiled. It is the promise that
`ServerBackend` and `PokemonGame` build on.

### 2.6 RouteSearch, TravelEmulator

`RouteSearch` is `runWithAlgorithmDij` as functions: `FromStart` is the first
loop, `Expand` one round of the second, `Rides` goes back from the destination,
`TasksOf` makes the tasks. Risks are truncated where the code converts to int,
and a float of 0.9 is a little less than 0.9 (`Shortfall`). For factors other than
those of the instance the float division by 60 may truncate a sum differently by
one; no property depends on a risk. The default limit of the code, 0x7FFFFFF, is
`INF` here: both are beyond any journey.

| variable | code |
|---|---|
| `table` | `m_routeMap`; loading it comes before and is the choice of a timetable |
| `sysTime`, `ten` | `m_sysTime` of `BackendBase`, the counter of `mainLoop` |
| `clock`, `tasks` | `m_sysTime` and `m_taskQueue` of `Customer` |
| `drawer`, `paused`, `running` | the drawer of `main.qml`, `m_mlPaused`, `m_running` |
| `pc`, `seen` | where the worker is, and the clock as it read it |
| `query` | `slotStartQuery` as far as it has come, and the `m_sysTime` it read first |
| `adding` | tasks the interface has still to push |
| `log`, `logging` | `m_listLogInfo`, `m_bStart` |
| `up` | false once the worker uses what is not there any more |

`asked`, `answer` and `disturbed` are history. A query reads the hour and the minute
of `m_sysTime` twice, once for the traveller's clock (`BackendBase.cpp:200`) and once to
see whether the start is over (204): four readings without a lock, in an order within each pair
that is the compiler's. They are `StartQuery`, `SetClock`, `ReadTime` and `FindRoute`, and the
worker may step `m_sysTime` between any two of them (`ShowTime`), also while the drawer
is open, since it looks at the pause only at the beginning of a round (`Enter`).
`Torn` is what an hour and a minute of two times make. One reading gives the time
before or after a step, never the bytes of both.
A query pushes its tasks one by one, and rounds of the worker may fall between them.
`m_sysTime += 36` is a read and a write, so that it may undo the reset by a query.
`disturbed` is set by any of the things that make a traveller miss a departure: a step of the
time shown between the readings of the query that sets him off, or before its first task is pushed;
the reset while the worker moves the clock; a query on the way; tasks that are pushed when
those before them are done. A push and a pop are each
atomic: what a torn `std::queue` does is not modelled. After the last pop
`updateStatus` reads the front of the empty queue, which may be anything
(`up'` is any Boolean).

### 2.7 Plan

The order is by what matters most to each program's users.

1. `HashChain`, `HashTable`, `DomainMap` and their proofs, with the refinement of
   `DomainMap`: done.
2. `DnsRelay` and its proofs: done. Left: what remains true after the first lap.
3. `ServerBackend`, `PokemonGame`, `Lobby` and their proofs, with the refinement of
   `Lobby` for any number of players: done. Left: two connections with one
   account; a proof of what remains true when anybody may leave at any time.
4. `Pokemons`, `BattleField`, `Duels` and their proofs: done. Left: the receiver's
   name of a trophy with three users; the pool of data base connections.
5. `RouteSearch`, `TravelEmulator` and their proofs: done.
6. `Framing`, `Channel` and the proofs, with the refinement of `Channel` on both
   sides: done.

## 3. Runs

| run | question | bounds |
|---|---|---|
| `HashTable_shared` | What is left of the map if three domains that expire share a bucket? (`LossyMap`, `ChainsIntact`) | a line of the file in its own bucket, three domains in another, three addresses, two rows: every order of insertions and removals |
| `HashTable_loaded` | Are the file's domains there for ever? No. | two lines and one cached domain in one bucket |
| `DnsRelay_routing` | Does each answer reach its asker, in time? (`AnswerReachesAsker`, `NoLateAnswer`) | two clients with equal ids, two rows (so rows are reused), packets that live 2 s with a limit of 1 s, 5 s |
| `DnsRelay_onelap` | Is the address right while no row is reused? (`RightAddress`, `BlockedStaysBlocked`, `KeysMatchRows`) | four rows in each ring, a blocked domain, two colliding domains with a TTL of 1 s |
| `DnsRelay_reuse` | Is it right after a row is reused? No. | two rows, two colliding domains |
| `PokemonGame_lobby` | Do server and clients agree on who fights whom? (`OneBattle`, `BattlesHaveUsers`, `FreeMayFight`, `ViewsAgree`, `LobbySpec`) | three players, so that one can get between the other two; three addresses, so that freed ones are used again; players leave or lose their connection while they neither fight nor wait |
| `PokemonGame_twice` | Does a battle begin only between two who are free when a player may leave while he waits? No. (`BeginsFree`) | two players |
| `PokemonGame_leave` | Is the opponent told when a player leaves? No. | two players |
| `PokemonGame_server` | Do battles against the server bear other players' messages? No. | two players |
| `BattleField` | Do battles end when they should, do both screens agree, does no effect leave the list too early, is experience kept, and what do duels do to the tables and the server? (`WinnerStands`, `ScreensAgree`, `EffectsNotEarly`, `ExperienceKept`, `PokemonKept`, `NobodyWithout`, `FallsOnlyByStaleId`) | five pairs of Pokemon of `pokemon.sql`, three fight for experience and two fight duels, one of them a user against the server; four turns, two battles |
| `Framing` | Do messages get through, however they are cut and whenever the connection breaks? (`ClientReadsMessages`, `ServerReadsMessages`, `ClientReceives`, `ServerHears`, `Reconnects`) | lengths of 2 bytes, bodies of 2 and 3, two connections, three messages |
| `TravelEmulator` | Can answers be travelled, and is a way found if there is one? Does an undisturbed traveller keep the time, miss no departure and arrive, and is it logged? (`LimitKept`, `RidesConnect`, `FoundIfReachable`, `NotMissed`, `ClocksAgree`, `StaysOnRoute`, `Arrives`, `LogWritten`) | two timetables of three cities, days of 4 minutes, two queries of either kind, each in four readings |

`CHECK_DEADLOCK FALSE`: the clock is bounded, and a table with all addresses
malloc'ed and no row expired has nothing to do; a Pokemon server that has
crashed does nothing, and two players that invited each other wait for ever; battles, messages and the
traveller's clock are bounded, and a program whose window is closed ends.

Bounds and assumptions, with the reason for each:

- Rings of 1 to 4 rows stand for 1024. What matters is which rows are taken,
  reused or still referred to, and each of these happens on 2 to 4.
- `RateLimited`: a row of `idTable` rests for `Lifetime` before it is taken
  again, that is, there are fewer than 1024 requests within the lifetime of a packet. Nothing
  in the code ensures that; without it an answer reaches the wrong client.
- `OneLap`: rows are not reused at all. It holds for the first 1024 requests and
  the first 1024 - 208 cached answers, and `DnsRelay_reuse` shows what changes
  when it is dropped.
- `Month`: `ToSecond` starts again each month. The runs stay within one
  (`MaxTime < Month`). At the change of a month `now - joinTime` is negative and
  no answer is late.
- Up to two A records per answer: the first is stored and the second finds it.

- `Leaves`: what a player may be doing when he leaves or his connection is lost. The code
  sets no limit; where it goes wrong is split over the runs by what the player does.
  `PokemonGame_lobby` has `{"free"}`: he neither fights nor waits for the start of a battle.
  Leaving a battle (`{"fighting"}`) is what `PokemonGame_leave` is about, and fails: the
  search of `UserDisconnected` may end the wrong battle or none, so `BattlesHaveUsers` is
  false as well. Leaving with an open invitation (`"waiting"`) is what `PokemonGame_twice` is about, and
  fails: so are `OneBattle` and `LobbySpec`. What holds of the lobby is claimed for players who do
  neither, no more.
- `Garbage`: the status that the copied User reads after login, which no constructor sets. The runs take
  IDLE; the proofs also cover BATTLING as long as nobody leaves (`Patient`). When such a
  user leaves, `UserDisconnected` looks for a battle he does not have and may end that of others.
- `TurnRead`: a player reads all attacks of a turn before he acts again.
  Otherwise the unread ones grow without limit. He can still act, or give up,
  while the end of the battle is under way to him.
- One login per connection, one account per connection, right passwords.
- A crash ends the run of the server; what happens up to it is checked.
- Battles: `MaxTurns` 4, `MaxBattles` 2. Four turns see every effect of the skills
  chosen begin and end, two battles see a level rise, a list grow, a stale
  list used and an invitation answered with an id that was given away. Defence reaches 0 only after five effects of one kind, which four
  turns do not allow; the theorems hold for that too. `BattleAssumption` says what
  the tables hold: strengths, and experience that does not pay for the next level.
- `Framing`: a body of 2 is as long as a length, one of 3 is not, and the type
  of a message is part of its body (`FramingAssumption`). `Stray` has nothing, less
  than a message, more than one, and more than ever comes. The last connection
  does not break, so that the bound `MaxLinks` is not taken for a fault; two are
  enough for one to inherit what the other left.
- `TravelEmulator`: `Day` 4, `Hour` 2, `Minute` 3, `Step` 2, `Passes` 2, `ShowStep`
  4 keep what matters of 1440, 60, 60, 36, 10, 360: a step is shorter than a
  minute and does not divide it, and a day has many of them. `ClocksAgree` allows
  a difference below `ShowStep + Minute` = 7, one way or the other, of a day of 12. The clock stops
  at `MaxClock`, after the last task of every journey of the instance (`TypeOK`).
  The program starts in the second minute, so that a journey goes over two rides and midnight; the
  second query, of a question with or without a limit, is made before, on the way, or after. A route
  that leaves more than a day after the time shown does not occur on so short a day; the proofs cover it.
- `InfinityAssumption`: no ride's risk and no journey through all cities comes near
  `INF`, which the code writes for a city not reached. `INF` is 0x3F3F3F3F; a journey
  through 13 cities with a day of 1440 minutes is at most some ten thousands. A query from a city to
  itself is refused before the search (`BackendBase.cpp:180`), as in `Routes`.

Fairness, where liveness is claimed:

- `TravelEmulator`: weak fairness of each thread, the query that is under way included. The worker goes on whenever it is
  not paused; it looks every 50 ms, so that a drawer which is opened again in
  less may be missed by it for ever. Hence no strong fairness, and `Arrives`
  supposes that the drawer is at last closed. Nobody has to do anything to the interface.
- `Framing`: weak fairness of both timers, of reading on both sides and of
  acceptance; strong fairness of `connected`, that is, of attempts without end one
  is answered. Nobody has to send, and no connection has to break.

No liveness is claimed for the relay: it never asks twice, and a lost packet is
lost. None is claimed for the lobby and the battles: a player may think for ever, and the
popups without a timeout (see the hazards) make waiting for ever possible.

### 3.1 What the code does differently from what it says

- `HashTable_loaded`: `main.c:722` calls the domains of the file resolved for
  ever. `InsertHashItem` sets `prev` of the second node in a chain to NULL and of
  every later node to the node before its predecessor, so that
  `RemoveHashItemByNode` of the third cuts out the second as well.
- `DnsRelay_reuse`: README.md:215 wants the address that belongs to the domain
  asked for. `onReadResponse` passes `idTable[temp].url` as the key of the node,
  a buffer that the 1024th following request overwrites; a request for another
  domain of that bucket then finds the old node.

- `PokemonGame_leave`: the comment at `ServerBackend.cpp:532` has the opponent of a
  user that leaves told that he won. The loop below it reuses the index `i`, so
  that battle `i` is compared with user `i`. When the player who logged in second
  leaves, the message goes to himself and his opponent stays BATTLING.
- `PokemonGame_server`: `BattleGiveUp` (1202), `UserDisconnected` (542) and
  `HandleBattleOperation` (949) follow the null `userB` of any battle against
  the server that stands before the battle they look for.

- `PokemonGame_twice`: whoever is found in a battle is not invited, the sender is answered
  instead (`ServerBackend.cpp:825`). But the answer to an invitation looks at nobody's status
  (876). A player invites another, leaves, logs in again and begins a battle with the server;
  the other accepts, and the first is in two battles.
The first two appear in the real configuration of the relay. Further facts that the models made
visible, without a run of their own: with four colliding domains that expire, a
removed domain can be found again through a stale `prev`; an insertion behind a
hole at the head of a longer chain is never found; `finished` is never read, so a
duplicated answer is passed on twice; one read error ends the service of that
socket.

Of the battles:

- Since every strike adds an empty buff to both lists, and the end of a buff
  makes the loop skip the one before it, an effect that stands before ones that
  end each turn no longer counts down: a Pokemon may sleep for the rest of the
  battle. An effect on the defence, attack or speed that is left out is off in the turn that
  follows. So effects stay on the list longer than they say, and are at work at as many ends of
  turn as they say, but not always at the ones they say. The database describes Outrage (`pokemon.sql:84`)
  as unable to act for the next turn, and AppleAcid (66) as lowering a defence for two turns: the first may
  last longer, the second may pause.
- `Outrage` puts its user to sleep before its own hit is counted, so that the hit is lost.
- When both fall by the same strike B wins.
- Poison, and healing above the limit, are not told to the clients: a screen may
  show more than there is, never less.
- With a defence of 0 the damage is a division by zero (`PokemonSkill.cpp:34`).
- An id that is kept longer than what it names brings the server down: `CreatePokemon`
  finds no row and calls `set_desc` on a null pointer. A loser who has given a Pokemon away
  and loses again in the same session may be offered an id that is not his any more; whoever
  gave one away may answer an invitation with it, as his client's list is not renewed; and the Pokemon of an
  inviter who left and logged in again before the answer is whatever his new User's memory holds. For the first
  two a new login makes up.

Of framing:

- The server does not wait for the rest of a message: a piece that ends within a
  body is handed on as a message, and the rest is read as a length.
- A connection that breaks within a message leaves `flag` and `length` to the next
  one, whose first bytes are then taken for the rest.

Of the travel emulator:

- The pause does not freeze the time in the strict sense of `BackendBase.h:72`: `mainLoop` looks at it once
  a round, so a round that has begun steps the time also after the drawer has opened, and in the
  midst of a query.
- The risk by which the search chooses is that of the last ride alone, truncated
  to an integer, and from the first city only whole hours of a ride count. So
  the route that is found is not in general one of least risk, and no property
  says so.
- A step of the time shown between the readings of a set-off makes its clock an hour wrong, or, over midnight,
  its journey a day older than its clock: the first task is missed, and the traveller stays where he is.
- Any query, also one that sets nobody off, resets the traveller's clock
  (`BackendBase.cpp:199`). If it so jumps over the minute of his next task he stays
  where he is, and as he still has tasks every later set-off is refused.
- The destructor does not wait for the worker: closing the window while a round
  is under way, also one that waits for the end of a pause, uses a traveller that is
  gone. What is then left in the log is lost.

## 4. Proofs

`HashChain_proofs`: `FindType`, `NewType`, `InsertType`, `RemoveType` say what
the operators return for every memory, also one whose chains are cyclic or point
to freed nodes. They rest on `MemoryAssumption` only. `FindNodeByKey` and
`ChainEnd` are recursive functions over chains that need not end; the `IF` in the
last line of each makes their range visible. That the function behind a lookup
exists is `LoopExists` (`LoopDefined`): from each node the loop can come to at most
one node where it stops. So `FoundHasKey`, by induction along a chain that ends (`VisitsSteps`):
the node a lookup returns has a key, which reads as the name. `InsertPairs` and
`RemovePairs` say where keys and values are after an insertion or a removal, which
does not depend on the links: a key never gets another key's value.

`HashTable_proofs`, for any number of buckets, addresses, rows and lines.
`TableTypes`: `Spec => []TypeOK` supposes nothing but the assumptions of the module.
All else is false without conditions on who shares a bucket with whom:

- `FileApart`: no domain that expires has a bucket of the file. Otherwise
  `HashTable_loaded` is what happens.
- `AtMostThree`: at most three of the domains of a bucket that expires are ever
  asked for. With four, TLC finds `ChainsIntact` violated.
- `Alone`, in place of the second: there is at most one.

Of the relay with its 1024 buckets they hold for short runs, not for long ones: they
are exactly how far the code can be trusted. `FileApart` and `AtMostThree` cover the instance of
`HashTable_shared`; what holds under `Alone` is proved and has no run.

- `TableInvariant`: `Spec => []IInv`. `IInv` has for each bucket a sequence of nodes
  that is its chain, no node being on two (`Held`). A lookup reaches those before the first
  hole (`Live`, `FindAlong`), which in a bucket of the file are never removed
  (`KeptBucket`), and in the others have distinct domains, at most three, and a
  `prev` that is NULL or the head (`SharedBucket`). That is what saves a chain of three:
  `InsertHashItem` gives NULL to the second node and the head to the third, so that
  a removal loses a node of the chain, but links it only to nodes that stay. The prev of a fourth
  node would be the second, which may be freed before it. TLC checked `IInv` with a bucket
  of the file and one of three domains before it was proved.
- From it `ChainsStayIntact`: `Spec => []ChainsIntact` and `LoadedStay`:
  `Spec => []LoadedForEver`.
- `TableIsLossyMap`: `Spec => LossyMap`. Each operation changes the sequence of one
  bucket: it appends a node or drops some, and what lookups return is read off the sequence.
- `TableIsMap`: `Spec => ExactMap`, under `FileApart` and `Alone`.

`DnsRelay_proofs`:

- `TypeCorrect`: `Spec => []TypeOK`, from `RelayAssumption`. `TypeOK` is inductive
  as it stands. One lemma per action; `StoreRecordsType` lifts `InsertType` to
  the one or two records of an answer.
- `AskerServed`: `Spec => []AnswerReachesAsker` and `AnswersInTime`:
  `Spec => []NoLateAnswer`, both under `WithinMonth` (`MaxTime < Month`) and
  `RateLimited`. Neither property is inductive: a reply is made from whatever the
  row holds. The invariant that is, `RoutingInv`, adds that each packet in `net`
  is no older than `Lifetime`, and `RowsOwned`: the row it names still holds the
  client, the id and the time of that very request. `TakenRowIsFree` is the core of the argument: a row that has
  rested for `Lifetime` is named by no packet, so giving it away disowns nobody.
- `AddressesRight`: `Spec => []RightAddress`, under `OneLap` and `DnsRows > 2` (1024
  in the code; on a ring of one or two rows the two records of one answer could go
  round it without the bound noticing). `RightAddress` says nothing of the tables.
  The invariant `AddressInv` says of every node, also of one that no chain leads to,
  that its key and its row name one domain and lie behind the next row of their rings
  (`Names`); of every row that its address is its domain's; of every packet
  that the row it names still holds its question. No links are spoken of, so the
  disorder that a wrong `prev` makes of the chains cannot hurt it. `KeysReadAsRows`
  is the first of these. TLC checked `AddressInv` and `FileInv` on the instance of
  `DnsRelay_onelap` and on one with three lines of the file in one bucket.
- `FirstDomainsObeyed`, and from it `BlockedForGood`: `Spec => []BlockedStaysBlocked`
  when each domain of the file is the first of its bucket and none is asked for with
  type PTR, which is answered without a lookup. By `FileInv` the head of the bucket
  holds the line (`NullAssumption`: it is no hole), is found first, never expires and
  so is never removed, and no
  question for the domain is ever on its way to the server. The condition cannot be
  left out: `HashTable_loaded` is a run in which the second domain of a bucket is
  lost. Of the 206 domains of `dns_table.txt`, 39 are the first of their bucket when
  `size_t` has 64 bits, and 132 when it has 32.
- `NodesInTheirBuckets`: `Spec => []KeysMatchRows`, `LoopsReturn`: no chain is endless or
  leads into memory that was freed, and `FileObeyed`: `Spec => []BlockedStaysBlocked` for
  all domains of the file that are not asked for with type PTR, wherever they are in their
  bucket. That is the other case of `BlockedForGood`: there every bucket of the file
  may be shared, here none is. Supposed are `OneLap`, `DnsRows > 2` and, of the
  domains that are asked for, the conditions of `HashTable_proofs`:
  `Table!FileApart` (no domain has a bucket of the file and is not in it),
  `Table!AtMostThree` (no other bucket has more than three) and `FileFits` (malloc does not fail
  while the file is loaded). The shipped file, with its 30 lines in one bucket and
  `www.fm1058.cc` on two lines, is no exception to them, and neither is the instance of
  `DnsRelay_onelap`; clients that ask for other domains of these buckets are.
  The argument takes over what is proved of the table (`Table == INSTANCE
  HashTable_proofs`). `ReadAs` reads the relay's memory: in place of a key the domain it
  spells, in place of a row of `dnsTable` the line of the file it holds, or 0. The
  loops see the same chain in both memories (`SameFind`, `SameEnd`, `SameVisits`), and an
  insertion or removal in one is the insertion or removal in the other (`InsertReads`,
  `RemoveReads`). What is read does not change when a ring goes on, because nodes only
  name rows behind its next one (`ReadsTheSame`, from `AddressInv`). So `TableInv` can say
  that the memory, as it is read, keeps the shape that `InsertStep` and `RemoveStep` keep
  (`Table!Held`) and that every line is found in it; with it, that lines stay in their
  rows, unexpired, and no question for one is on its way to the server. That `Held` also puts
  every node into the bucket of its domain is the conjunct `Homed`.

`Induction`: the library's induction theorems take an operator as parameter,
which no prover here can instantiate. But that a set of natural numbers which is
not empty has a least element follows from its theorem on well-founded relations,
and from this induction over a set (`SetInduction`, `InductionUpTo`). So it can be
proved that the functions behind the folds (`FoldLeft`, `FoldRight`), behind a
recursive function of a number and behind a loop that need not end are defined
(`FoldDefined`, `FoldBackDefined`, `RoundsDefined`, `LoopDefined`), and what they compute follows by induction over the steps. The
proofs on queues, lists, effects, levels and searches below rest on these lemmas.

`PokemonGame_proofs`, for any number of players and addresses, and queues of any
length, when the players are `Patient`: they leave and lose their connections only while
they neither fight nor wait for a battle (`Leaves \subseteq {"free"}`), and not at all if a copied
status may read as BATTLING. That is a condition on what people do, not something the code sees to; `PokemonGame_leave` and
`PokemonGame_twice` show that neither half can be left out:

- `ServerInvariant`: `Spec => []IInv`. None of the properties is inductive: the
  answer to an invitation marks both players BATTLING and looks at nothing, so
  what makes it safe is what the two clients can have sent. `IInv` says of the
  server that users and battles have names and users of their own, and of each
  client where it will be once it has read what is under way to it: the page, and
  the side of the battle, that the server has it on; that at most one answer is
  under way, to somebody who waits for it; and that an invitation is open only
  while its sender waits. TLC checked `IInv` on the instance of `PokemonGame_lobby`
  before it was proved.
- `ServerTypes`, `OneBattleEach`, `BattleUsersOnline`, `ClientsAgree` and `FreeCanFight` are the five
  invariants of the run; the last supposes also that the status reads as IDLE after login.
- `ServerKeepsPromise`: `Spec => LobbySpec`. Each handler is shown to end at most
  one fight for both or to begin one between two who are free (`LobbyStep`); the
  loop of `HandleBattleOperation` by induction over its passes.
- `FightsAreMutual`: `Spec => []lobby!Mutual`. `LobbyIsMutual` proves it of the
  abstract specification for any set of players: `Begin` only links players that
  are free, and a player somebody fights is not free. Through the
  refinement it holds of the server, which never leaves one player alone in a battle.

`BattleField_proofs`, for any Pokemon, skills and dice, any number of turns and
battles, and whatever `BeyondInt` is, from `DamageAssumption` and
`BattleAssumption`: `BattleTypes`, `WinnerKnown`, `ScreensTogether`, `EffectsLast` and
`NothingLost` are the five invariants of the run. The inductive invariant `IInv`
has them in a stronger form:

- each buff on the list still has as many turns to count as it needs to have been at work
  as often as it was given for (`Held`), whichever buffs the loop leaves out. For this no
  more need be known of `Visited` than that it is a set;
- no skill gives `REVIVE`, so that the end of a turn heals nobody
  (`BuffsHandled`); what is healed by a strike is told to both clients, and cut
  off at the limit only on the server. So a screen never shows less;
- a row is what its Pokemon became by levels that were paid for (`Grown`), while the
  levels of one victory are bought one after the other (`GainIs`): after n rounds it is
  settled, or n levels up.

The duels, in the same module: `AlwaysKept`: `DuelSpec => []PokemonKept` and `NeverWithout`:
`DuelSpec => []NobodyWithout`, from `DuelAssumption` (everybody has a Pokemon to
begin with) alone, for any Pokemon, skills, number of turns and of battles. The
invariant `Accounted` adds to the properties that all row numbers are below the next one
(so an insertion overwrites nothing), that no name is given twice, and that what is offered
is owned. Of the battles the argument needs only that the winner is one who
fights (`NextKeepsBattle`). `OnlyStaleIdsFall`: `DuelSpec => []FallsOnlyByStaleId`,
since the list of a session whose user has given nothing away holds only ids that he
owns (`UpToDate`), however often it grew, and so does the list his client shows. `DuelsAreBattles`: `DuelSpec => Spec`,
so that the theorems about battles hold of duels, which are what the run checks.

`Framing_proofs`, from `FramingAssumption` alone, for any number of connections and messages,
any lengths, and however the bytes are cut:

- `ClientReadsWhole` and `ServerReadsWhole`: `Spec => ClientReadsMessages` and
  `Spec => ServerReadsMessages`, the refinements of `Channel` for the two readers. What a reader has
  not read yet and what is on its way to it are one stream. The invariant says
  that, unless the connection is spoiled, each byte of this stream tells which comes next,
  that it ends with the last message sent, and that it begins at the byte at which
  the reader believes to be (`FramingInvariant`). One round of either loop keeps this, the
  loops by induction over their rounds (`FoldDefined`); writing adds at the end, a
  break takes away from the end, a delivery moves the cut. For the server a piece that does not end within
  a body makes each message it begins be there in full.
- `FramingTypes`: `Spec => []TypeOK`. That the client believes itself connected
  exactly while it is needs a part of the same invariant.

TLC checked the invariant on the instance of `Framing` before it was proved.

`TravelEmulator_proofs`, for any day, step, timetable and journey, and any order of
the three threads, from `TravelAssumption`, `EmulatorAssumption`, `InfinityAssumption`
and `ClockAssumption`:

- `WithinLimit`: `Spec => []LimitKept` and `RidesCanBeTaken`: `Spec => []RidesConnect`.
  The invariant of the search, `Knows`, says of each city that was reached that it
  hangs on another one by a departure of the timetable, later than the arrival
  there. A city on the way back is therefore reached earlier than the one before,
  the way meets none twice, and with as many steps as there are cities it must
  have come to the start.
- `FindsAWay`: `Spec => []FoundIfReachable`: a query without a limit is answered with a way exactly
  when departures lead from the start to the destination. Times grow by
  at most a day and a ride with each city (`Soon`) and so stay below `INF` (`Margin`), as do
  risks; hence a departure out of the cities taken is never refused for good. Each round
  takes one more city, or the search is over (`ExpandReaches`). After as many rounds as there are
  cities, either the destination is taken, or no departure leads out of those taken
  (`Closed`), and then the destination cannot be reached. Conversely the way back is a way.
- `NeverMissed`: `Spec => []NotMissed` and `NeverOffRoute`: `Spec => []StaysOnRoute`.
  `NotMissed` is not inductive: the invariant `Journey` speaks of the whole rest of
  the journey, which is sorted, connected and still to come, and of the worker that
  is about to move the clock: it has begun all tasks of the minute, so that one
  step, which is no longer than a minute (`NextMinute`), reaches the next task's
  minute at most. That the first task is still to come rests on the readings of the query: while no
  step of the time shown falls between them, all four are of one time, and the start lies behind the
  clock it sets. Where one does, nothing is claimed (`disturbed`). `JourneySound` is this invariant.
- `ClocksTogether`: `Spec => []ClocksAgree`, by `Clocks`: between two steps of the
  time shown the difference is what the traveller's clock has gone since.
- `TypesKept`: `Spec => []TypeOK`. A task ends before the bound of the clock because
  of `ClockAssumption`, which is about the bound of the model, not about the code.

What the assumptions ask of the timetable (departures between known cities, at a
minute of a day, that take time) is what the tables of the program hold.

Every invariant that a run checks and that holds is stated by a theorem, some under
conditions, which are named with each. Only model-checked is all liveness, which is out
of the reach of the provers here.

## 5. Not modelled

- Malformed packets, packets longer than 1024 bytes, and the 64-byte limit of a
  domain: the models begin with a parsed question.
- `DeleteHashTable` and `cleanup`, which run while the process exits;
  `RemoveHashItem`, an unfinished function without callers.
- Memory that is never freed (send requests and their buffers).
- Of the game: statements of the data base that fail and the pool of its
  connections; signing up, queries and wrong passwords; two connections with one
  account; lists, Pokemon and results as the client shows them.
- Of the travel emulator: a torn queue (the threads share it without a lock), a torn `QDateTime` (each
  reading sees the time before or after a step), the data models and what QML shows of them, the texts of the log.
- What `config.ini` is read from, and event loops: libuv and Qt are taken at
  their word.
- Vendored code (libuv; protobuf, with its tests, is nearly all of the lines of this
  repository), generated protobuf code, QML beyond what is named above, assets.

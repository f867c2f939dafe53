# TLA+ models of BeeExpress

BeeExpress is a marketplace: stores sell to customers, couriers deliver. A NestJS
server over MySQL (Prisma) holds the state that lasts; four web front ends, a
Telegram bot and two Redis lists surround it. This directory models how several people
act on the same rows at once, how requests, answers and jobs are lost, repeated and
overtaken, and how pages act on what they were last told. Source paths below are
relative to `server/src/` unless they start with `admin/`, `client/`, `courier/`,
`seller/`, `bot/` or `docs/`.

Two kinds of concurrency decide how everything here is written.

*The server.* A handler is an `async` function, a chain of awaited database calls.
Between two of them any other handler runs. Most handlers *read a row, check it, and
write it by id in a later call* that does not check again; transactions
(`prisma.$transaction`) make a group of writes atomic, they do not repeat the check.
Each model has a set of handlers that may be in flight (`Slots`, `Desks`, `Reviews`,
`Drafts`, `Transfers`, ...); a handler holds what it read. Some properties hold however
handlers overlap. Others hold as long as they do not: they are checked with one slot, or
guarded by a history variable (`crossed`, `mixed`, `raced`, `jumbled`, `tangled`,
`crowded`) that becomes TRUE when a second handler starts beside a first. Where a run has
both kinds they are properties of their own (`PanelsStand` and `PanelsShowAlone`,
`RecordsStand` and `RecordsStandAlone`, `ListingsFit` and `ListingsStand`): a guarded one says
what the code keeps without overlap, and does not cover the overlap.

*The front ends.* A page sends calls whose answers come in any order, or never, while
the person presses on. Each model has a set of calls in flight (`Calls`, `Polls`,
`Reads`, `Fetches`, `Looks`, `Sends`, `Saves`, `Asks`). The server's side of such a call
is one step there, and taken apart in the module of its component. Pages that are built
alike are one module, with a record of what a page does differently (`Lists`, `Entry`,
`Browse`, `Forms`).

## Inventory

| Component | State | Operations | Hard behaviour | What makes it correct |
|---|---|---|---|---|
| Order lifecycle (`orders/orders.service.ts`) | order rows, history rows | cancelMine, updateStatusForStore, assignCourierForStore, transitionStatus | check, then write by id; dispatch and messages after the commit | moves of the tables only, a stock return for each cancellation, complete history |
| Courier work (`courier/courier.service.ts`) | same rows, contract on accept, profile JSON | accept, updateStatus, release, updateProfile | claims race; counting active orders is stale at the claim | claim is a lock, one order at a time, no edit lost |
| Dispatch (`contracts/dispatch.service.ts`) | same rows | onOrderReady, assignToCourier | best effort, several calls, errors swallowed | only active contracts, claim and cut together |
| Order messages (`notifications/order-notifier.service.ts`) | inbox rows | statusChanged | after the commit, never retried | the customer hears how it ended |
| Checkout, cart, stock (`orders/`, `cart/cart.service.ts`) | cart rows, orders, stock | addItem, updateItem, removeItem, clear, checkout | cart and stock read before the transaction | no piece is lost, never oversold, cart ordered whole |
| Offers (`seller/offers/offers.service.ts`) | offer rows | create, update, remove | update writes values computed from an earlier read | sold out is off sale |
| Contracts (`contracts/contracts.service.ts`) | contract rows | request, cancel, approve, reject, revoke, mint, setPayment | check, then write by id; mint races a request | documented cycle, terms fit, nothing overridden, the courier knows |
| Earnings (`courier/courier.serializer.ts`, statistics, finance) | cut on the order | computeEarning, stats, payouts | terms change between computing and writing a cut; statistics are read in pieces | paid as taken, payouts are earned |
| Authentication, users (`auth/`, `admin/users`) | codes, sessions, block flag | send and verify code, logins, refresh, logout, block, unblock | attempts, consumption, rotation, revocation in separate calls | limits bend once per overlapping handler, a blocked user stays out |
| Roles, onboarding (`admin/roles`, `courier/onboarding`, `admin/moderation`) | roles, applications, profile | assign, create, remove; apply, approve, reject | check, then write; counted, then deleted | role and application agree, nobody loses a role |
| Bot contact sharing (`bot/src`) | user rows | contact handler, Mini App login | two lookups, then a write, beside the server's login | a number opens no other person's account |
| Notifications, queues, workers (`notifications/`, `queue/`, `bot/src`) | inbox, Redis lists | send, push, pop, deliver, markRead | pop before delivery; restart in between | at most once, in order, no copy without its row |
| Gateway (`notifications/notifications.gateway.ts`, `admin/src/shared/realtime`) | sockets, rooms | connect, verify, drop, recycle | token is looked at after the client was told it is connected | one live socket, said truly |
| Stores, products, moderation (`seller/`, `admin/moderation`) | rows, slider | create, update, archive, approve, reject, feature | check, then write by id | rows fit, an approved store stays on sale |
| Addresses (`addresses/`) | address rows | create, update, remove | default decided by a row read before the transaction | one default |
| Uploads (`uploads/`) | file rows, object store | presign, PUT, complete, direct, attach | object store between the calls | what is shown is READY, its owner's and there |
| Reviews, product requests | rows, cached rating | create, bump, fulfil | aggregate in each transaction; find then create | rating is exact, requests of a kind are bounded |
| Categories, attributes (`catalog/`) | tree, values, links, entries | create, move, remove, attach, retype, save, change a product's category | walk, count or validate first, write later | no cycle, entries are of the category |
| Public pages, quote (`public/`, `geo/geo.ts`) | none | lists of products and stores, detail, menu, nearby, quote | six services, six rules | a promise is what checkout does, but for known differences |
| Opening hours (`common/store-hours.ts`, the seller's editor) | weekly JSON | toggle, setTime, isStoreOpenNow | midnight | open when the seller means it |
| Tokens in a browser (`shared/api`, auth store, boundary) | pair per tab, persisted pair | call, 401, refresh, resend, logout, reload | many calls, several tabs, one stored pair | a page never spends a token twice, calls settle |
| Getting in and out (login pages, guards) | token, me, route | login, boundary, role guard, logout | answers after their session ended; roles change meanwhile | the page is its owner's, no circles |
| Inbox on the pages (`NotificationsProvider`, bell) | badge, toasts, list | poll, fetch, mark | ticks overlap, answers out of order | no toast twice, badge converges |
| Order pages (three panels) | status on display | poll, press, read again | copies of the transition tables, old answers | no refused button, status converges |
| Lists and decisions (their pages) | rows, filter, page, buttons | filter, read, decide, read again | older answers, reload with an older filter | shows what was done |
| Forms (of the panels) | inputs, row, locks | fill, type, save, read again | refilled while typing, Enter, two buttons | text is kept, one call per button |
| Cart rows, cart and checkout page | basket, quote, submit | press, quote, submit | answers out of order, lost answers | presses count, quote is for the address, ordered once |
| Location and its pages | location, page | choose, save, delete, read | location in the browser, addresses on the server | page is for here |
| Brands; other statistics; audit; seeds and set-up | | | none | not modelled, see the end |

How they interact. A login's refresh token lives in a browser's tabs. Moderators let
stores, products and couriers in; sellers keep offers, hours, contracts and payments.
Pages sell what the public services show; checkout creates PENDING orders and takes
stock; the order lifecycle cancels (stock back) or leads to READY; READY calls dispatch,
which claims for a contracted courier, otherwise the order waits in the pool for an
accept; an accept mints a temporary contract and keeps a cut. Every status change ends in
a notification, which pages poll and the Telegram worker pops from a Redis list.

## Modules

| Modules | Contents |
|---|---|
| `OrderStatus`, `OrderLifecycle` | statuses, transition tables, timestamps; all handlers on the orders of one store after checkout |
| `CourierClaim`, `OrderContract` | abstract: a claim is a lock; the life cycle with indivisible calls |
| `Checkout` | cart, offers, checkout, the stock side of a cancellation |
| `Contracts`, `ContractCycle` | contract rows of one store; abstract: the cycle the docs draw |
| `Payouts` | payment terms, cuts, statistics, payouts |
| `Sessions`, `Linking`, `Staff` | codes and sessions; phones and Telegram accounts; applications, roles, profiles |
| `Delivery`, `Inbox` | the two Redis lists and their workers; the inbox composed with them |
| `Sockets` | the admin's live connection and the gateway |
| `Listings`, `Uploads`, `Addresses`, `Feedback` | stores and products; files; addresses; reviews and requests |
| `CategoryTree`, `Attributes`, `Storefront`, `Opening` | the catalog; what pages promise; when stores are open |
| `TabTokens`, `Entry`, `Poller`, `Screens` | browser tokens; logins and guards; the inbox on a page; an order's page |
| `Lists`, `Forms`, `CartRows`, `CheckoutPage`, `Browse` | lists, forms, cart buttons, checkout page, location |
| `MCOrderLifecycle`, `MCCheckout`, `MCContracts` | symmetry sets and the store of each offer for the runs |
| `MCAccounts`, `MCShop`, `MCClients` | independent components, one at a time in one run |
| `OrderLifecycleProofs`, `CheckoutProofs`, `ContractsProofs`, `AccountsProofs`, `RecordsProofs`, `ShopProofs`, `ClientsProofs`, `PanelsProofs` | theorems |

Abstract and detailed. `OrderLifecycle` implements `CourierClaim` however handlers overlap
(`ClaimIsALock`) and `OrderContract` when they do not (`FollowsContract`); `Contracts`
implements `ContractCycle` when handlers do not overlap (`FollowsCycle`). `OrderContract` is
the code's own tables with every call indivisible, not the life cycle of the comment at
`orders.service.ts:46-48`: that comment gives the seller no transition after READY, the
table beside it lets him move ON_WAY to DELIVERED, and `StoreEndsDelivery` is the action
that shows it.

Next to each action that a property depends on stand *slips*: the same action with a
plausible mistake (a dropped guard, a forgotten row). They are not part of any `Next`;
`PROJECT.json` lists under "mutants" which property catches which.

### OrderLifecycle and the code

`order[o]` is the row's `status`, `courierId`, `courierEarning` and set timestamps
(`courierAssignedAt` is written and cleared with `courierId` and left out). `returns`
counts how often the order's quantities went back to stock; `Checkout` has the stock
itself. `lastRow` is the newest history row's status, `told` the last message to the
customer, `contract[c]` the courier's contract row as far as dispatch looks at it.

| Code | Actions |
|---|---|
| cancelMine, updateStatusForStore, then transitionStatus | `CancelMine`, `UpdateStatusForStore`, `TransitionStatus` |
| onOrderReady | `DispatchRead`, `PickAvailableCourier`, `ClaimWins` or `ClaimLoses`, `ClaimRow` |
| assignCourierForStore, assignToCourier | `AssignCourierForStore`, `CheckAssignee`, the same claim |
| accept | `Accept`, `AcceptWins` or `AcceptLoses`, `EnsureTemporaryContract` |
| courier's updateStatus, release | `UpdateStatus` and `DeliveryWrite`, `Release` and `ReleaseWrite` |
| statusChanged | `StatusChanged` |
| errors, restarts | `CallFails` where the code swallows the error, `Die` elsewhere |

Abstractions. The dispatcher's reads of contracts, users, active counts and the
contract's terms are one step; being online and not blocked may change at any time,
so any free contracted courier may be chosen, or none; "least recently used" is any.
The reads of accept share the snapshot of its transaction (InnoDB repeatable read);
its `updateMany` is a current read, hence a step of its own. Messages to sellers and
couriers are left out. Contract decisions are one action (`ContractChange`), taken
apart in `Contracts`.

### Checkout and the code

`offer[f]` is the SellerOffer row, `cart[u][f]` a CartItem row (quantity 0 where there is
none), `order[<<n, s>>]` the order of checkout `n` at store `s`. Prices are copied from
offer to order and left out. `supply[f]` is not in the code: it is what the seller put up
(the first stock, then what each edit added to the stock it read), NULL once an edit wrote
over a stock it had not read. `StockBalanced` says that stock is never less than `supply`
less the pieces of open orders, and exactly that unless one of the offer's orders was
returned twice: two overlapping cancellations do that, and the property says so.
`CheckoutRead` stands for the reads and the validation, which are merged (nothing between
them writes), `CheckoutCommit` for the transaction, atomic as the database makes it. The
handler of a cancellation begins when it read an order that is not cancelled; which
statuses allow one is `OrderLifecycle`'s matter. A store that is closed, inactive or out of
reach refuses: the handler never begins, or dies. Deleting a cart row ends an update of it
in flight, because ids are not reused. An offer id is created once. Deleting an offer
deletes cart rows (cascade) and leaves order rows.

### Contracts and the code

`row[c]` is the courier's row with one store: status, temporary or not, whether it
expires or has expired, whether `approvedAt` is set. Each handler is its read with its
check (`Approve`), then its update (`ApproveWrite`), then its message (`Notify`) or, for
the courier's own calls, the answer (`Reply`, `Answer`). `told[c]` is what the courier last
heard of his contract either way. A create
that meets `@@unique([courierId, storeId])` fails. A store that is not ACTIVE refuses a
request before it begins. Messages to the seller are left out. `setPayment` is in
`Payouts`.

### Sessions, Linking, Staff and the code

`otp[u][k]` is a one-time code (open or over, failed attempts, how often it logged in),
`session[t]` a Session or SuperAdminSession row by refresh token. `verifyPhoneOtp` is
`VerifyPhoneOtp` (newest open code, attempts checked), then `WrongCode`, or `LoadUser`,
`ConsumeOtp`, `IssueTokens`; `refresh` is `Refresh`, `RevokeOld`, `ReloadUser` (users
only), `IssueTokens`; the admin's block is `Block`, `BlockWrite`, `CutOff`. A handler may
die between any two calls (`HandlerDies`). Hashes and signatures are left out: a token
names its row, a typed code is right or wrong.

`Linking` has the User rows by phone and Telegram account, the bot's contact handler
(`ShareContact`, two lookups, an update or a create that meets the unique keys) and the
Mini App's first login, which overlaps it. grammY awaits one update before the next, so
the bot has one handler. A phone's owner may change.

`Staff` has `CourierApplication` rows, `User.role`, roles and the courier's
`profile` JSON, read and written back whole (`updateProfile`, and `approve`, which seeds
it). `RemoveRole`, `CountUsers` and
`DeleteRole` are the calls of a role's removal.

### Delivery, Inbox, Sockets and the code

`Delivery` has the two Redis lists and the bot's workers (`PopJob`, `Deliver`,
`DropJob`, `BotRestart`); `Inbox` composes it with `NotificationsService.send`, which writes
the row and then pushes the copy, and with `AuthService`, which pushes codes. `Sockets`
has `RealtimeProvider`'s effect, `getSocket`'s cached socket and the gateway's
`handleConnection`, which verifies the token after the client heard "connect".

### Listings, Uploads, Addresses, Feedback and the code

`Listings`: the status, reason, approval and slider columns of stores, the status,
publication date and reason of products; each seller's and moderator's call is its read
with its check, then its write. `Uploads`: the row, the object, what shows it and the mark
that says so; the browser's PUT may come before or after `complete`, or never.
`Addresses`: rows of one customer; `create` is one transaction with its own count,
`update` and `remove` read before theirs. `Feedback`: reviews whose transaction inserts,
aggregates and stores, and requests that are found, then created or bumped; a review is
serialised by the row lock its last update takes, so `Aggregate` is a current read of what
is committed and its own.

### CategoryTree, Attributes, Storefront, Opening, Payouts and the code

`CategoryTree`: `isSafeParent` walks one call per ancestor (`WalkStep`) up to a limit, then
the parent is written by id. `Attributes`: values, links to the category and the products'
entries, each removal with its count and each save with its validation first, foreign keys
as the schema states them. `SaveProduct` is an edit that brings attributes, with or without
a category; `MoveProduct` one that brings a category alone, which keeps the entries of the
old one (`moved` remembers it). A save asks of a list attribute only that some value is
given: one of another attribute is filed (`astray` remembers it), and stripped when that
other attribute, which counts no uses, is removed. `Storefront` has no protocol: its state
is one store, category and offer as the six services look at them, chosen freely, and each
page's rule is an operator beside checkout's: product lists with and without a category
(`ListShows`), lists of stores, the featured ones and those nearby, the product's page, the
store's menu, the quote. A fee is known by where its base and its price per kilometre come
from. `Opening`: the weekly hours as the seller's editor writes them and `isStoreOpenNow`,
against what the windows mean; days and minutes are few. `Payouts`: `setPayment` (kept by
type: percent, flat, salary), `computeEarning` at a claim, the claim's write that keeps the
cut, a release that clears it, the statistics' two reads and the payouts; money is counted
in hundreds, as fees and cuts are rounded to them.

### TabTokens, Entry and the code

`TabTokens`: `shared/api` of the four front ends. A call answered 401 waits for the tab's
one refresh (`JoinRefresh`) and is sent again; a refused refresh forgets the pair; a load
reads what any tab persisted last. `Entry`: login pages, `AuthBoundary`'s `/auth/me`,
`RoleGuard`s, the courier's application page and logout, with roles given and taken
meanwhile. Panels differ in when they look at the role, what their guard does and what
their form asks, three fields of `panel`.

### Poller, Screens, Lists, Forms and the code

`Poller`: the poll of the unread count, the list that is read when it grew, toasts, bell
and read marks, several ticks in flight. `Screens`: an order's page in three panels, with
their own copies of the transition tables. `Lists`: twenty-eight list pages by five fields
(what a filter does to the page number, what follows a decision, which buttons wait,
polling, when an error goes). `Forms`: seventeen forms by what fills them, what each button
sends, what follows success, Enter, Escape and the courier's switch; an input is one of two
groups, its text any of three values.

### CartRows, CheckoutPage, Browse and the code

`CartRows`: presses on a menu's rows, the cart's rows and a product's page count from the
cart shown last; the server's answer replaces it. `CheckoutPage`: cart store, quote effect
with its `live` flag, submit. `Browse`: the persisted location, `useEnsureLocation` and the
pages read for it, by what each hides, says and offers while it waits.

## Runs

| Run | Instance | Shows |
|---|---|---|
| order_overlap | 1 order, 2 couriers, 2 slots, failures | types; courier and cut set and cleared together; a cancelled order is settled; the history lags only around a claim; the claim is a lock |
| order_serial | 2 orders, 2 couriers, 1 slot, fairness | the life cycle of the code's tables with indivisible calls, complete history, accept keeps one order, the customer hears the end |
| order_terminal | 1 order, 2 slots | violated: "(terminal)" |
| checkout_overlap | 1 customer, 1 offer, 2 slots, 2 checkouts, stock up to 2 | no piece lost; none made up, but by an order returned twice or an edit over an unread stock |
| checkout_serial | 1 customer, 2 stores with an offer each, 1 slot | types, never oversold, sold out is off sale, each line of the cart in one order |
| checkout_oversold | 2 customers, last piece, 2 slots | violated: stock validated "inside a single transaction" |
| contracts_overlap | 2 couriers, 3 slots, failures | types, terms fit, a mint overrides nothing |
| contracts_serial | 2 couriers, 1 slot | the documented cycle; the courier's last news is his contract's status, whoever changed it |
| contracts_reopened | 1 courier, 2 slots | violated: approve is PENDING to ACTIVE |
| accounts | Sessions, Linking, Staff, Inbox, Lists, Entry, Forms, Sockets, one at a time | limits bend once per overlapping handler; a blocked user keeps fewer sessions than handlers overlap; no number opens another's account; reviews fit; no message without its row; panels do not hang. Without overlap: roles follow reviews, panels show what was done |
| shop | Listings, Uploads, Addresses, Feedback, CategoryTree, Attributes, Storefront, Opening, Payouts, CartRows, CheckoutPage, Browse, one at a time | rows fit; uploads; ratings, hours and pay are right, defaults and requests bounded; pages agree with checkout. Without overlap: an approved store stays on sale, one default, one request, presses count, no cycle, attributes are of the category |
| clients | TabTokens, Poller, Screens, one at a time, each under its fairness | no page spends a token twice; nothing is toasted twice; buttons match; calls settle; badge and status converge |

The runs accounts, shop and clients check components that share no variable. Their variable
`part` picks the one that a behaviour is about, once, in the initial state: the run is as
many runs, one per component, and a state of two components at work never occurs.
`PanelsStand`, `PanelsShowAlone`, `RecordsStand`, `RecordsStandAlone` and the type
invariants name what is checked of each part. The first and the third hold however calls
and handlers overlap; the two that end in Alone hold up to the point that each formula
names, and what lies beyond it is listed under *What else the code does*.

### Bounds

Orders of different stores share no row but the courier's count, which two orders
exercise. Two couriers are enough to compete, two handlers to overlap; a third slot in
`contracts_overlap` lets two writes come between a handler's read and write. `MaxReturns`
bounds how many cancellations of an order may *start*, so the state space is finite; two
slots let both in flight commit. `MaxStock`, `MaxQty` and `MaxCheckouts` bound what is
entered; a quantity of 2 against a stock of 1 is the smallest oversale.
Two slots let two cancellations of one order, or a sale and an edit of its offer, overlap:
both exceptions of `StockBalanced` occur.

accounts: one user and one admin, two refresh tokens, one code with one attempt (the
limits count overlaps, which two slots give; the theorems have any number); three User
rows, two numbers and two Telegram accounts for `Linking`, so that a number can move
between two people beside the Mini App's own row; one person with two desks and one role
besides; three jobs for the lists; two rows, two filters, two reads and two decisions on a
list page; two visitors and two calls in `Entry`; two saves in `Forms`; three tokens in
`Sockets`. Slots, rows and tokens are interchangeable: permutations of `i1..i3` and of
`h1, h2` are symmetries.

shop: three stores and one product with two handlers; three addresses; three files of two
owners; three categories with a walk of two (a chain can be longer than the walk, a cycle
can close with two moves); two attributes, one value of the first, and one product, which a
save files under its own attribute, under the other or under none; distances and radii on
both sides of each other and of the default and the maximum; three reviews and three presses
of a request; a cart of two dishes with two pieces of each in stock, up to three in a row (a
row may stand above the stock) and three in all (`MaxCart`: two rows are never full at
once); two places and two reads; two days of four ticks (opening before, at and after
closing, and all overnight cases between neighbouring days); one order, two claims of one
courier, terms of 50 %, a flat fee above the delivery fee, a salary. The symmetry permutes
`i1..i3`; a swap of two of them swaps the `h`s and `k`s with it, which leaves six
permutations for all parts.

clients: two tabs, three calls (two in one tab), two further pairs of tokens, one reload per
tab; two notifications, two ticks; two reads of an order. No symmetry, as liveness forbids.

Couriers, orders, customers and slots of the other runs are interchangeable, hence their
symmetry sets; order_serial uses none. Deadlock is checked except where a run may really
stop: all offers deleted and all checkouts used up, all files, reviews and tokens used, or
nothing left to answer.

### Fairness

`FairSpec` of `OrderLifecycle` asks that a handler in flight makes its next call (weak
fairness of `Step(r)`): the event loop does that. Nobody has to send a request, accept an
order or decide a contract. `EndIsTold` holds with one slot and no failing call; with two,
messages may be sent in the opposite order of the writes they announce, and a restart
loses one.

`TabsFairness`: a refresh and a call in flight come to an answer, as axios' timeout makes
them. `PollerFairness` and `ScreensFairness`: the interval of a visible page ticks (weak
fairness of `Tick` and `PollOrder`), a request comes to an answer or an error (weak), and
polls that are made again and again are answered again and again (strong): a network that
loses every answer refreshes nothing. Persons are under no fairness.

### What else the code does

Consequences of unguarded writes that TLC finds, all by the pattern of order_terminal: two
READY requests leave a READY order with a courier that no claim can take; two
cancellations return the stock twice; a release overlapping the pickup sends an order on its
way back to the pool; a seller's edit overlapping the last sale puts an empty offer on sale; a
line added during a checkout is deleted unordered; two accepts of one courier both succeed;
two verifications of one code both log in; a block overlapped by a login leaves a session; an
approval overlapping a rejection leaves role and application apart; two moves close a cycle
in the category tree; two updates of the profile lose one's fields; two addresses become
default. `FollowsContract`, `SoldOutIsOffSale`, `AcceptKeepsOneOrder`, `ListingsStand`,
`RecordsStandAlone`, `PanelsShowAlone` and the guarded parts of `StaffStands` hold without
overlap and fail with it for these reasons. `StockBalanced` excepts the two cancellations and
the overwritten stock by name.

Met while reading, with no property of its own:

- orders: `orders.service.ts:46-48` says the courier's machine takes over after READY, and
  SELLER_TRANSITIONS lets the seller move ON_WAY to DELIVERED (`StoreEndsDelivery`);
  `dispatch.service.ts:19` says one order at a time, and assignToCourier does not count;
  `schema.prisma:809` speaks of a prompt when a price drifted, and checkout charges the
  live price; a cancellation puts an offer back on sale although its seller took it off
  (`orders.service.ts:621`).
- pay: `setPayment` takes percentages over 100 and works on refused and ended contracts; a
  flat fee may exceed the delivery fee, then the commission clamps at 0 and the rows of
  the earnings page do not add up; a pool card shows the 80 % estimate whatever the contract
  pays.
- contracts: the temporary contract that an accept mints is made in silence, the courier
  hears nothing of it.
- moderation: an edit of a rejected product makes it ACTIVE and leaves the reason
  (`products.service.ts:217`), where `moderation-products.service.ts:23-25` says that it
  bounces to PENDING; so `ListingsStand` claims nothing of refused products; no edit of a
  store bumps it back. An archived product's offers stay orderable; a product that changes
  category keeps the attributes of the old one unless the edit brings new ones
  (`products.service.ts:202-213`). validateAttributes (`products.service.ts:287`) says that
  it verifies that values match their attribute, and asks only that there is one
  (`astray`). With two stores, updateMine and toggleOpen take any, requireOwnStore the
  newest.
- shop: a product's page sells the marketplace offer of a store that is closed for the
  moment ("MARKETPLACE ships regardless", `public-products.service.ts:345`), and checkout
  refuses it (`orders.service.ts:144-148`); the radius gate that `geo/geo.ts:20-24` calls
  applied identically gets no category radius in stores nearby and the menu, so that
  between the default radius and the category's they answer otherwise than quote and
  checkout; a product list without a category filters neither status nor hours of the store
  and shows no category fee; the quote refuses a store without a location, checkout serves
  it for nothing; hasActiveOffers counts offers of products that are not published.
  `PagesAgree` names the differences it allows; a product list takes a `radiusKm` of the
  query, which is left out (that of stores nearby is `NearbyShows`'s argument); a chain
  deeper than 32 escapes the walk of a move, and descendantCategoryIds does not end on a
  cycle; after midnight an overnight window is looked up under today's row; an editor whose
  last day is closed leaves the store always open (documented).
- accounts: a block that dies between flag and revocation cannot be repeated; several reviews
  per buyer pass, as the unique key has a nullable column; the signed PUT works after complete;
  attach overwrites another entity's mark.
- gateway: nobody calls pushToRole, pushBroadcast or emitUnreadCount, and send pushes to rooms
  of users only, so the admins' sockets hear nothing; a socket the server ended is not dialled
  again before the token changes; the provider's cleanup clears the timers of toasts and
  leaves the toasts.
- pages: a reload with an older filter shows another page's rows; a moderation page says one
  approve does not disable all buttons and disables them all; cart and location survive a
  logout; an answer of `me` after a logout stays stored; a courier whose role was taken sees
  an empty application page; a product's page keeps an offer that became out of range; the home
  page keeps the old place's stores after a failed read; the seller's product page and two
  modals overwrite typed text when their row is read again; Enter sends two modals again while
  they save; a notification sent again after a lost answer is sent twice; the courier's
  switch touched during a save may show the opposite of what is stored; the courier's order
  page does not poll.

## Proofs

Checked by TLAPS for every value of the constants (any sets of orders, couriers, users,
offers, rows, tokens, calls and slots), from the assumptions each module names: `NULL`-like
values are no element of the other sets, bounds are naturals, slots are finite where they
are counted.

- `OrderLifecycleProofs`: `TypeCorrect`, `ClaimColumns`, `CancelledSettled`, `HistoryLag`,
  `ClaimLock` hold for any number of overlapping, failing handlers. The type invariant
  carries what each handler holds at each call (`HandlerOK`): the claim invariant needs
  that a claim has a cut to write and that no `transition` writes COURIER_ASSIGNED. With
  `OneSlot`, the lemma `Fresh` says that what a handler read still holds when it writes, and
  `SerialContract` uses it to map every step to a step of `OrderContract` or a stutter: the
  split into calls adds nothing where handlers do not overlap;
  `SerialAccept` needs that the courier of an accept in flight holds no active order
  (`AcceptCounted`), and `SerialHistory`, where no handler dies half-way either, that only a
  dispatched claim is without its row and its handler is about to write it (`RowFollows`).
- `CheckoutProofs`: `TypeCorrect`. `StockKept` and `CartWhole` hold for any overlap, from
  `Books`: only checkouts that were placed have orders, a new offer is in none, the pieces
  of each are finite in number. What the orders hold of an offer is counted as a finite set
  of pieces, so no sum is unfolded. With `OneSlot`, `SerialStock` and `SerialOffSale` from
  `NothingStale`: a checkout in flight still finds the stock it read, an edit leaves stock
  where it puts the offer on sale.
- `ContractsProofs`: `TypeCorrect`, `MintSafe`, and `Terms`, whose strengthening
  (`DecidersSeeNoTemporary`) says that whoever is about to approve or reject works on a row
  that was requested at some time. With `OneSlot`, `SerialCycle` and, where no handler dies
  half-way, `SerialNews`: whoever does not know how his contract stands is about to hear
  it (`Heard`).
- `AccountsProofs`: `LimitsBendOncePerHandler` and `BlockedGetNoFurther`. The invariants
  count: what was spent of a code or token already, plus the handlers in flight that may
  still spend it, never exceeds the number of slots (`Fits`, `Spends`); a blocked user's live
  sessions plus the handlers about to issue him one stay below it (`StaysOut`). The
  steps are lemmas on cardinalities of sets of slots and tokens. `NumbersStayTheirs` from
  `LinkInv` (what the bot's lookups returned is still true, as rows keep their keys, or the
  unique keys refuse its write); `StaffIsInOrder` from `StaffInv` (rows by themselves, any
  overlap) and `SoloInv` (without overlap the one handler's check still holds);
  `ListsStayTrue` from `InboxInv` (rows are numbered without a gap, each list and its worker
  carry numbers in order, up to the last one published).
- `RecordsProofs`: `DefaultsAreKept` from `AddressInv` (the rows that are default and the
  handlers that may make one default, counted together: `ClaimedBounded`); `FeedbackIsKept`
  from `FeedbackInv` (who is about to write the rating has counted what will be committed
  with it; without overlap, the handler in flight knows all rows of its kind);
  `PageStaysTrue` from `PageInv`; `BrowsingStands` from `BrowseInv` (a read in flight asks
  for the place the page is for, or is of an earlier one); `TreeStaysATree` from `TreeInv`
  (what a walk passed leads to its cursor and does not hold the category that moves:
  `WalkHolds`; the path to the top is reasoned about as a set closed under parents, not by
  induction on its length); `AttributesAreKept` from `AttributeInv` (what a handler
  validated still holds: `EditHolds`; an entry of another attribute's value and a move to
  another category are noted: `StraysNoted`, `moved`); `HoursStayKept` from types and
  arithmetic on minutes alone.
- `ShopProofs`: `PagesPromiseTruly` needs types only, but all distances and radii;
  `UploadsAreShownTruly` from `UploadInv` (READY implies the object; whoever is about to show
  a file found it READY and its own); `ListingsAreInOrder` from `ListingsInv` (who puts a
  store on the slider found it approved); `DecisionsHold` from `StandInv`;
  `EveryPressCounts` from `RowInv` (the one call in flight brings what was wanted);
  `CutsAreAsTaken` from `PaidInv` (a claim in flight carries a cut of terms that were in
  force since it read); `PayoutsAddUp` from `PayInv`: the payouts of all couriers are what
  the delivered orders earned, for any finite sets of orders and couriers.
- `ClientsProofs`: `NeverOwnRefusal` from `TabInv` (a pair a page holds was not spent by this
  load of it), `ToastedOnce` from `ToastInv` (what was toasted counts as seen),
  `NoButtonRefused`.
- `PanelsProofs`: `OneLiveConnection` from `SocketInv` (the provider hears the cached
  socket, no other is alive); `DecisionsDoNotCross` from `LockInv` (a call in flight keeps
  its page locked); `ListsShowTheRows` from `ListInv` (a spinner has a read in flight and a
  waiting button its decision; where calls do not meet, a read in flight brings what is
  true, and without one the page shows it or an error); `PeopleGetInAndOut` from `EntryInv`
  (calls and page are about the person whose tokens are stored, and each page bounds how
  many redirects may have led to it); `FormsKeepAndShow` from `FormInv` (locks, texts and
  rows agree with the saves in flight).
- The compositions: `AccountsAreTyped`, `PanelsCanBeUsed` and `PanelsShowAloneHolds`,
  `ShopsAreTyped`, `RecordsAreInOrder` and `AloneRecordsAreInOrder`, `ClientsAreTyped`. A
  step of a composed run is a step of the part the behaviour is about; the inductive
  invariant is each part's, under `part = ...`.

Two arguments recur. *Counting*: a limit that overlapping handlers bend is proved by counting
the rows that spent it together with the handlers that still may. *Sums without induction*:
the sums of `Payouts` are a library recursion over finite sets. An amount is made a pile of
pairs, so that a sum is a cardinality (`Total`), and that the recursion has that value
is shown by a smallest counterexample among the subsets (`SetInduction`).

The constants' assumptions that proofs made explicit, each true of the code by its
kind: the root of the tree is no missing row (`Top`, `Absent`); a week has several days;
the answer that has not come is no place; a list page has some filter; a browser follows
more than two redirects; orders and couriers are finite in number.

Only model-checked: liveness under fairness (`EndIsTold`, `CallsSettle`, `PagesConverge`),
out of the prover's reach. Every other property of a passing run is a theorem;
`FollowsContract`, `FollowsCycle` and the other properties of the serial runs are proved
under the hypothesis of those runs, that one handler is in flight.

## Not modelled

- Brands, names, slugs, sort order, filter flags of the catalog, renaming of roles: single-row
  edits with no protocol between actors.
- Search, sorting, facets and pagination of the public services; statistics, finance and audit
  queries other than those `Payouts` has: they change nothing and no step depends on them.
- Wording and recipients of messages to sellers and couriers; templates and looks of the pages.
- Haversine and the rounding of fees: real arithmetic. Distances are few numbers.
- Size and type checks of uploads, hashing, JWT signatures, guards: pure checks on one input.
- Seeds, scripts, process set-up, Dockerfiles, migrations.
- Composition of the order model with `Checkout` on stock, and of `Payouts` with
  `OrderLifecycle`'s interleavings of one order, beyond the steps they share: the product of
  their states is out of TLC's reach, and each keeps the other's writes as steps.

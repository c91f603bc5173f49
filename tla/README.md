# TLA+ models of deso-backend

These TLA+ modules model the parts of `src/` that have state or arithmetic a
model checker can explore. Every definition is translated from the Go source;
`PROJECT.json` maps each definition to the lines it models. Definitions marked
`spec_modelled` stand for code outside this repository, such as the deso-core
`lib` package and the ledger. Those are written from `spec.md`.

## The system and its parts

| Part | Source | What it does | State and concurrency |
|---|---|---|---|
| DAO coin converters | `src/unnamed/part_003` lines 313-588 | Turn a client's float price and quantity into the ledger's uint256 scaled rate and base-unit quantity, and back for display. | Pure functions. The hard parts are the numeric edges: the uint256 range, truncating divisions, and `%.Nf` rounding at 15 digits. |
| Order read endpoints | `part_003` lines 40-311 | `GetDAOCoinLimitOrders` reads a pair in both directions; `GetTransactorDAOCoinLimitOrders` reads a user's orders. Each order is converted with the converters, and orders that fail to convert are skipped. | They read the ledger's order book, which changes between requests as orders are placed and filled. |
| Referral admin endpoints | `src/unnamed/part_001` | Create, update, list, download and upload-CSV of referral links in the global-state key/value store. | A link lives under two keys: hash → info and (PKID, hash) → IsActive. Handlers use separate Get and Put calls, any Put can fail, and HTTP requests run concurrently. |
| Global params, SwapIdentity, test signing | `src/unnamed/part_002` | Build one transaction from a mempool view and return it unsigned. | `UpdateGlobalParams` sends -1 ("unchanged") for a field equal to the view. `SwapIdentity` looks its two names up through two separate views. The wallet submits the transaction later, and other admins' transactions may reach the mempool first. |
| Checksum tool | `src/unnamed/part_004` | Paginates every state prefix through `DBIteratePrefixKeys` under a semaphore. | One goroutine per prefix, pagination with `removeFirst`, a semaphore barrier at the end. |
| Profile update helper | `src/scripts/tools/toolslib/update_profile.go` | POSTs for an unsigned UpdateProfile transaction, signs it, and submits it to a node. | Every HTTP call can fail or lose its answer. Another transaction of the key can spend the inputs in between. |
| Mnemonic helper | `part_005` | Derives keys from entropy. | None. |
| Build and CI | `part_000`, Dockerfiles | Workflows and images. | None. |

How the parts interact: an order's price and quantity pass through the
converters when the order is created. That handler is outside `src/` and is
modelled from the spec. The ledger stores the order and fills it. The read
endpoints convert it back. What a read shows is what a client sends back when
it edits or re-places an order, so the two conversions must be inverse at the
supported precision.

## Modules

- **`DaoCoinExchange`** holds the converters as pure operators.
  - The code's powers of ten and uint256 width are CONSTANTS. The code's 10^9 / 10^18 / 10^38 / 15 digits / 2^256 become 10^1 / 10^3 / 10^4 / 2 digits / 2^30. The ASSUMEs keep the relations that decide which branch a value takes:
    - DESO quantities have fewer decimals than the float precision, and DAO quantities have more;
    - a parsed rate is a multiple of the DESO/DAO factor;
    - the uint holds about ten times OneE38², as 2^256 holds about 1.16·10^77.
  - A float is an integer count of 1/OneE38. A decimal string is a record of its sign and value.
  - `%.Nf` is `RoundToStep`. It is round-to-nearest, and an exact tie may go either way, since the float64 underneath decides.
  - `lib.CalculateScaledExchangeRateFromString` is `ParseDecimalToScaled`, written from spec §4.2 (spec_modelled).
- **`DaoCoinOrders`** (EXTENDS DaoCoinExchange) covers orders through their life.
  - Variables:
    - `book` is the ledger;
    - `requests` is a history of what each order was placed with;
    - `response` is a bag of the last read's entries;
    - `expected` is the ids the last read asked for;
    - `status` is the outcome of the last request.
  - Actions:
    - `CreateDAOCoinLimitOrder` (spec_modelled);
    - `FillOrder`: the ledger, either one partial fill of an order or a full fill;
    - `GetDAOCoinLimitOrders` and `GetTransactorDAOCoinLimitOrders`, each modelling the whole handler including its response builders.
- **`FormatFloat`** is `formatFloatAsString` as the code runs it: `getNumDigits` takes one `big.Int.Div` per step. TLA+'s `\div` is floor division, which equals Go's Euclidean `Div` for the divisor 10.
- **`FormatFloatSpec`** is the abstract one-step formatter. It states the whole-digit count by what a digit count is, the `n` with 10^(n-1) <= v < 10^n (`WholeDigits`), not by a division loop. The refinement therefore shows that the loop, with Euclidean division, ends with that count. `FormatFloat` instantiates it with the identity refinement mapping on `f` and `out`, and checks `Abstract!Spec` as a PROPERTY.
- **`Referral`** models one process per admin request.
  - The process state is `proc`: its pc and locals. Every Get/Put of the handler is its own step, and every Put has a failing disjunct.
  - `owner` is a history variable: the referrer the last create or CSV row wrote.
  - A CSV row either parses or not. Its PKID, amount, RequiresJumio and timestamp columns (`valid`) are parsed before the info Put. Its IsActive column (`BadBool` when it does not parse) is parsed only after the info Put, as at part_001:716-724. A bad IsActive therefore ends the upload with that row's info written and no status set.
  - The reads `AdminGetAllReferralInfoForUser` and `AdminDownloadReferralCSV` change nothing. They are the operators `ListingFor(p)` and `DownloadRows`, which the properties compare.
  - The action property `RowCountedIsApplied` relates a CSV row's last step to the store.
- **`GlobalParams`** composes the param updater's two handlers, `UpdateGlobalParams` and `SwapIdentity`, over the one mempool their transactions share.
  - One field stands for the five that `UpdateGlobalParams` treats identically.
  - Variables:
    - `params` is the confirmed field and `owner` is the confirmed key of each username;
    - `mempool` is a FIFO sequence of submitted transactions;
    - `proc` is each admin session's state: idle, between its two lookups, or holding a built transaction.
  - History variables, which only the properties read:
    - `intended` and `lastSub` record the last submitted param request, with the views it was built and submitted against;
    - `swaps` counts submitted swaps, so each swap records whether another swap was submitted after its first lookup.
  - `UpdateGlobalParams` is the whole handler. It either fails at one of its checks or builds the field against `AugmentedView`.
  - `SwapIdentity` and `SwapResolveTo` are the handler's two `getPublicKeyFromUsernameOrPublicKeyString` calls (`GetPublicKey`), each through a fresh `AugmentedOwner`. Building the transaction follows the second lookup in the same step.
  - `SubmitTxn`, `DropTxn` and `Mine` are the wallet and the ledger (spec_modelled).
    - A param field below 0 is excluded, as the handler's comment says.
    - A swap trades the profiles of its two keys, which is what the transaction is named for; the spec does not describe it.
- **`Checksum`** is `part_004`'s `main`.
  - `Launch` is one turn of the prefix loop, including its blocking `sem.Acquire(ctx, 1)`.
  - `Page` is one turn of a goroutine's paging loop, with its panic, its break and its deferred `Release`.
  - `Barrier` is the final `Acquire(numProcesses)`.
  - `db` is chosen in `Init` among all databases with up to `MaxKeys` entries per prefix of sizes in `EntrySizes`, so one run checks every small database.
  - `DBIteratePrefixKeys` is deso-core code, described neither here nor in `spec.md`. It is modelled as the caller relies on it: entries from the start key inclusive, appended until the running size exceeds `maxBytes`, which sets `fullDb`.
- **`UpdateProfile`** covers `_generateUnsignedUpdateProfile` and `UpdateProfile` step by step.
  - `pc` is the client's position; `body` is the response body (none, open, drained to EOF, or closed); `txn` is the transaction held; `utxo` is the version of the key's inputs at the node; `profile` says whether the node applied the update.
  - `Post` is the request going out (or `json.Marshal` failing). `Answer` is the node's reply arriving (or `http.Post` failing): it is a separate step because the client waits for it without a timeout.
  - Every call that returns an error has a failing disjunct. `Submit`'s answer may be lost after the node applied the transaction.
  - `Other` is another transaction of the same key reaching the node.
- **`UpdateProfileSpec`** is the abstract call: it returns at most once, ok only if the profile changed, and error with or without the change. It does not promise to return, since the code does not. `UpdateProfile` instantiates it with the identity mapping on `profile` and `result`.
- **`MCDaoCoinOrders`, `MCFormatFloat`, `MCReferral` and `MCChecksum`** give the inputs and symmetry sets.

## Runs

| Run | Config | Expect | What it shows |
|---|---|---|---|
| orders | `MCDaoCoinOrders.cfg` | pass | `ReadShowsEachOrderAsPlaced`: a pair or transactor read lists each asked-for order once, as placed. `OrderDenomination`: the ledger holds the rate in base units of the selling coin per base unit of the buying coin, and the quantity in the coin the operation names. |
| remainder_rounding | `MCDaoCoinOrdersRemainder.cfg` | violation | `DisplayedQuantityNeverExceedsRemaining` fails. An order of 0.13 DAO filled by 3 base units shows 0.127 as "0.13", which converts back to 130 > 127. The spec says values are truncated, never rounded up. |
| format_refinement | `MCFormatFloat.cfg` | pass | The digit loop implements the one-step formatter and returns, for 50 inputs: fractions, carries, values past the precision, and negatives above -1. |
| format_negative | `MCFormatFloatNegative.cfg` | violation | `Termination` fails for -5.0 and -12.7. The quotient reaches -1 and stays there, so `formatFloatAsString` hangs on a negative client price or quantity. |
| referral | `MCReferral.cfg` | pass | With concurrent requests, failing Puts, rows that fail to parse and hash collisions, no listed link lacks its info, because every handler puts the info before the status key. |
| referral_transfer | `MCReferralTransfer.cfg` | violation | One admin's CSV upload moves a link from p1 to p2. p1's listing still shows the link, which now names p2. |
| referral_race | `MCReferralRace.cfg` | violation | An update that read a link before a CSV row moved it writes its stale copy back, reverting the referrer. |
| referral_row_status | `MCReferralRowStatus.cfg` | violation | `RowCountedIsApplied` fails. The status Put's error is ignored (part_001:725), so the upload counts a row whose link has no status key and is missing from the referrer's listing. |
| global_params | `MCGlobalParams.cfg` | pass | Two interleaved updater sessions. `RequestLostOnlyToStaleView`: once everything is mined, the field differs from the last submitted request only if that request was sent as -1 and the view changed between its build and its submission. `SwapTradesNamedProfiles`: a swap that no other swap raced trades the profiles of the usernames it named. |
| checksum | `MCChecksum.cfg` | pass | For all 7225 databases of up to 3 entries per prefix of 1-4 bytes, with `maxBytes` = 3. `Termination`: the tool ends. `PanicOnlyOnOversizedEntry`: it panics only when some entry exceeds `maxBytes`. `ChecksumCoversEachKeyOnce`: when it prints, each key was checksummed exactly once. |
| update_profile | `MCUpdateProfile.cfg` | pass | `UpdateProfileRefinesSpec`: the stepwise client implements the abstract call. It returns at most once, and ok only if the node applied the update. It may return error for an applied update whose answer was lost, and may wait forever on a node that never answers; the abstract call permits both. |
| update_profile_body | `MCUpdateProfileBody.cfg` | violation | `BodyClosedOnReturn` fails. A 200 answer whose body does not decode returns with `resp.Body` open and unread, so its connection is never released. (A non-200 answer is read to EOF, which releases the connection.) |

Each property of a passing run has a mutant in `PROJECT.json`: an operator
defined just before the code operator it replaces, modelling a plausible bug.
TLC finds the property violated when that mutant is used.

## Bounds and why they are enough

- **orders:** 2 order ids, 1 transactor, 2 DAO coins plus DESO, and all 6 ordered pairs. There are 7 prices and 3 quantities.
  - The prices each exercise one branch:
    - 0.003 underflows to zero;
    - 0.127 rounds up;
    - 1.5 is plain;
    - 9.996 carries into a new digit;
    - 1567 is truncated and then overflows when scaled;
    - 150000 overflows the uint;
    - -0.5 is negative.
  - The quantities are zero at any scale, 0.13, and 12.7, which rounds up.
  - The ledger may make one partial fill of 3 base units per order, and a full fill at any time. A partial fill is what makes the displayed quantity differ from the request; further partial fills only repeat it, with another remainder.
  - Two order ids are enough for a read to have to include one order and exclude another, in both directions of a pair.
  - Symmetry: order ids and DAO coins.
- **format:** MaxDigitCount = 8 exceeds every input's digit count (an ASSUME checks this). Past it the count saturates, so a non-terminating loop shows as a stuttering cycle rather than an unbounded counter.
- **referral:** 2 admins with 1 request each, 2 hashes, and CSV uploads of up to 2 rows.
  - Two PKIDs in the violation runs. Those bounds are enough for a create racing an update, an upload that creates a link and then moves it, and a collision.
  - One PKID in the pass run (288k states, 13 s). Its property is about a status key and its info, which no second referrer adds a case to; with two, the run takes the full five minutes. Two rows let a file fail after its first row was written.
  - `referral_race` takes only rows that parse (`Rows <- MCParsedRows`), because the race needs none of the parse errors.
  - Symmetry: hashes and PKIDs.
- **global_params:** 2 admin sessions with 1 request each, values {0, 1}, 2 usernames and 2 keys. A swap request may name either. These bounds reach each case the properties are about:
  - a param request lost to a stale view;
  - a swap raced by another swap;
  - a swap looked up while another swap is pending ahead of it, which is the case the augmented view exists for.
  - Two requests per session make the run take minutes (39M states) without adding a case.
- **checksum:** 2 prefixes, up to 3 entries each, sizes 1-4 with `maxBytes` = 3. Pages end mid-prefix, at the last key, at exactly `maxBytes`, and on an entry larger than `maxBytes`, which makes the tool panic. The code's single semaphore unit is kept.
- **update_profile:** statuses {200, 500} and up to 3 other transactions of the key, which may land before the POST, between the POST and the submit, or after it.
- **Deadlock:** the referral runs set `CHECK_DEADLOCK FALSE`. The model stops when every admin has sent its requests; no process ever waits. The format runs set it because the function returns, and its final state has no successor.

## Fairness

- `FormatFloat` assumes weak fairness of its next-state relation. The loop runs on the calling goroutine and waits on nothing.
- `Checksum` assumes weak fairness of its next-state relation. Go's scheduler runs every runnable goroutine, and nothing waits on outside input. `Termination` counts a panic as an end; `PanicOnlyOnOversizedEntry` says when a panic can happen.
- `UpdateProfile` assumes weak fairness of the client's own steps only: sending the POST, checking the status, decoding, closing and signing. It assumes none of the node's answer (`Answer`) or of the submit's answer (`Submit`). `http.Post` uses the default client, which has no timeout, so nothing makes the node answer. Another transaction (`Other`) is not required to happen either.
- `DaoCoinOrders`, `Referral` and `GlobalParams` check only safety and assume no fairness.

## Not modelled, and why

- **Test file drift.** `src/routes/dao_coin_exchange_test.go` tests functions that are not in `src/`, for example `CalculateScaledExchangeRateFromFloat` and `CalculateStringQuantityFromBaseUnits`. The tests do not match the code modelled here, and nothing about that is checkable by TLC.
- **Referral stats.** The stats fields of `ReferralInfo` are written by the referral flow outside `src/`. Their lost updates under the read-modify-write of update and CSV are therefore not modelled.
- **`AdminDownloadRefereeCSV`** reads referee keys that nothing in `src/` writes.
- **Error-path bugs in `AdminDownloadReferralCSV`.** At lines 573-577 and 617-623 it writes an error and continues instead of returning. This is plain in the code, and is not state a model adds anything to.
- **The test-signing endpoint** (`part_002:346-392`) splices bytes around deso-core's `SignTransactionWithDerivedKey`, whose output format neither this repository nor the spec gives. Its cut of the last byte (line 383) depends on that format, so it is not modelled.
- **Mempool eviction.** In `GlobalParams` a submitted transaction leaves the mempool only by being mined, in order. A transaction the mempool drops would leave stale every view built on it. The mempool is deso-core's, and neither this repository nor the spec says when it drops one. `RequestLostOnlyToStaleView` is therefore a statement about a mempool that does not drop transactions.
- **Which iterator the checksum verdicts rest on.** The panic verdicts depend on deso-core's page-end rule, which neither this repository nor the spec states; `PageEnd` writes down the rule the model assumes.
- **float64 rounding in `strconv.ParseFloat`** (part_003:369, 421). The model's prices and quantities have a few digits, all exact in a float64. A real value of more than about 16 significant digits is rounded to the nearest float64, so a displayed price sent back as an order can convert to a different rate. TLC's 32-bit integers cannot reach those values, so this is listed as a hazard without a property.
- **Mnemonic generation** (`part_005`) is cryptography.

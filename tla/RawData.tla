------------------------------- MODULE RawData -------------------------------
(***************************************************************************)
(* The rows of the simulated company (src/platform_ops/simulation/         *)
(* raw_data.py) and how they reach its operational Postgres                *)
(* (legacy_db.py): every table is defined over a fixed range of ids, and a *)
(* load inserts the rows whose _loaded_at is in (after, until], children   *)
(* after the parents they are made from.                                   *)
(*                                                                         *)
(* Time counts from the history's start; a row is its id, its stamp        *)
(* (_loaded_at) and one number that stands for its columns. draw is what   *)
(* the hashes of a row's id come to: [all, odd, other], the draws of every *)
(* row but the odd one.                                                    *)
(***************************************************************************)
EXTENDS Integers, SequencesExt

CONSTANTS
    Counts,         \* plan.counts: the number of ids of a table
    Span,           \* plan.span_seconds
    DayTicks, HourTicks,
    Draws,          \* the draws of an event time within an id's share
    OrderLag, SessionLag, PaymentLag,    \* max_lag of the pruned tables
    CampaignDays

Tables == <<"customers", "products", "orders", "order_items", "payments", "web_sessions",
            "marketing_campaigns", "marketing_spend", "support_tickets">>

Never == -Span    \* after None: before every stamp

DrawOf(draw, id) == IF id = draw.odd THEN draw.other ELSE draw.all

Ceiling(a, b) == (a + b - 1) \div b

\* _event_time: the square root of the id's share of the span, to the second.
EventTime(id, u, n) ==
    LET square == Span * Span * ((id - 1) * Draws + u)
    IN  CHOOSE t \in 0..Span : t * t * n * Draws <= square /\ square < (t + 1) * (t + 1) * n * Draws

\* Mutant of Eligible: the share that ends with the row itself.
EligibleInclusive(id, n, parents) == 1..Max({1, (parents * id) \div n})

\* _parent_id: the ids a row may have as its parent.
Eligible(id, n, parents) == 1..Max({1, (parents * (id - 1)) \div n})

\* _Window.ids
Ids(after, until, n, lag) ==
    LET at(moment) == Min({Span, Max({0, moment})})
        high == Min({n, Ceiling(n * at(until) * at(until), Span * Span) + 2})
        from == at(after - lag - 2)
        low  == Max({1, (n * from * from) \div (Span * Span) - 1})
    IN  low..Max({low, high})

Loaded(rows, after, until) == {r \in rows : after < r.stamp /\ r.stamp <= until}

Row(id, stamp, of) == [id |-> id, stamp |-> stamp, of |-> of]

-----------------------------------------------------------------------------
\* The builders: the rows of a table, of which a load keeps those of its window. Each may
\* read the tables loaded before it in the generator, db.

CustomerRows(draw) ==
    LET n == Counts["customers"]
    IN  {Row(i, EventTime(i, DrawOf(draw, i).u, n) + DrawOf(draw, i).lag, 0) : i \in 1..n}
        \cup {Row(n + k, EventTime(k, DrawOf(draw, k).u, n) + DayTicks + DrawOf(draw, n + k).lag, 0) :
                k \in 1..Max({1, n \div 50})}    \* who registers twice, a while later

ProductRows == {Row(i, -DayTicks, 1) : i \in 1..Counts["products"]}

OrderRows(draw, after, until) ==
    LET n == Counts["orders"]
    IN  {Row(i, EventTime(i, DrawOf(draw, i).u, n) + DrawOf(draw, i).lag, 0) :
            i \in Ids(after, until, n, OrderLag)}

\* An item has its product's price when it is loaded.
ItemRows(db, after, until) ==
    {Row(10 * o.id + line, o.stamp,
         (CHOOSE p \in BagToSet(db["products"]) : p.id = 1 + (o.id % Counts["products"])).of) :
        o \in Loaded(BagToSet(db["orders"]), after, until), line \in {1, 2}}

\* Mutant of PaymentStamp: a payment may be loaded before its order.
PaymentStampAlone(order, created, d) == created + d.late

PaymentStamp(order, created, d) == Max({created + d.late, order.stamp + 1})

PaymentRows(db, draw, after, until) ==
    LET n     == Counts["orders"]
        items == BagToSet(db["order_items"])
        total(o) == MapThenSumSet(LAMBDA r : r.of, {r \in items : r.id \div 10 = o.id})
        paid  == {o \in BagToSet(db["orders"]) :
                    /\ o.id \in Ids(after, until, n, PaymentLag)
                    /\ \E r \in items : r.id \div 10 = o.id
                    /\ DrawOf(draw, o.id).parts > 0}
        first(o) == (6 * total(o)) \div 10
        payment(o, part) ==
            LET d == DrawOf(draw, o.id)
            IN  Row(10 * o.id + part, PaymentStamp(o, EventTime(o.id, d.u, n) + d.delay, d),
                    IF d.parts = 1 THEN total(o)
                    ELSE IF part = 1 THEN first(o) ELSE total(o) - first(o))
    IN  UNION {{payment(o, part) : part \in 1..Min({2, DrawOf(draw, o.id).parts})} : o \in paid}

SessionRows(draw, after, until) ==
    LET n == Counts["web_sessions"]
    IN  {Row(i, EventTime(i, DrawOf(draw, i).u, n) + 2 * DrawOf(draw, i).lag, 0) :
            i \in Ids(after, until, n, SessionLag)}

\* A campaign's row holds the day it starts.
CampaignRows(draw) ==
    LET n     == Counts["marketing_campaigns"]
        start(k) == ((Span \div DayTicks) * ((k - 1) * Draws + DrawOf(draw, k).u)) \div (n * Draws)
    IN  {Row(k, start(k) * DayTicks - 3 * DayTicks + 9 * HourTicks, start(k)) : k \in 1..n}

SpendRows(db) ==
    UNION {{Row(1000 * c.id + d, (c.of + d) * DayTicks + 30 * HourTicks, 0) :
               d \in {x \in 0..(CampaignDays - 1) : c.of + x < Span \div DayTicks}} :
           c \in BagToSet(db["marketing_campaigns"])}

TicketRows(draw) ==
    LET n == Counts["support_tickets"]
    IN  {Row(i, EventTime(i, DrawOf(draw, i).u, n) + DrawOf(draw, i).late + DrawOf(draw, i).lag, 0) :
            i \in 1..n}

Builder(table, db, draw, after, until) ==
    CASE table = "customers" -> CustomerRows(draw)
      [] table = "products" -> ProductRows
      [] table = "orders" -> OrderRows(draw, after, until)
      [] table = "order_items" -> ItemRows(db, after, until)
      [] table = "payments" -> PaymentRows(db, draw, after, until)
      [] table = "web_sessions" -> SessionRows(draw, after, until)
      [] table = "marketing_campaigns" -> CampaignRows(draw)
      [] table = "marketing_spend" -> SpendRows(db)
      [] table = "support_tickets" -> TicketRows(draw)

\* load_window
LoadWindow(empty, draw, after, until) ==
    FoldLeft(LAMBDA db, t : [db EXCEPT ![t] =
                 @ (+) SetToBag(Loaded(Builder(t, db, draw, after, until), after, until))],
             empty, Tables)

Empty == [t \in ToSet(Tables) |-> EmptyBag]

-----------------------------------------------------------------------------
\* The company's days.

\* apply_daily_changes: the products and customers a day changes in place.
Changed(db, day, at) ==
    LET picked(r, n) == (r.id + day) % n = 0
        change(table, r) ==
            IF /\ picked(r, Counts[table])
               /\ table = "customers" => r.stamp < at
            THEN Row(r.id, at, r.of + 1) ELSE r
        rows(table) == SetToBag({change(table, r) : r \in BagToSet(db[table])})
    IN  [db EXCEPT !["products"] = rows("products"), !["customers"] = rows("customers")]

\* _land: every row of the generator stamped in the window, upserted by its key.
Land(postgres, db, after, until) ==
    [t \in ToSet(Tables) |->
        LET incoming == Loaded(BagToSet(db[t]), after, until)
        IN  {r \in postgres[t] : \A i \in incoming : i.id # r.id} \cup incoming]

\* A company: the generator, Postgres, and until when rows have arrived.
Seeded(draw, start) ==
    LET db == LoadWindow(Empty, draw, Never, start)
    IN  [db |-> db, postgres |-> [t \in ToSet(Tables) |-> BagToSet(db[t])], until |-> start]

ArriveNew(c, draw, until) ==
    LET db == LoadWindow(c.db, draw, c.until, until)
    IN  [db |-> db, postgres |-> Land(c.postgres, db, c.until, until), until |-> until]

Arrive(c, draw, day, until) ==
    LET db == Changed(LoadWindow(c.db, draw, c.until, until), day, until - HourTicks)
    IN  [db |-> db, postgres |-> Land(c.postgres, db, c.until, until), until |-> until]

\* The days after start, with late more rows after the nightly load of some of them.
AfterDays(draw, start, days, mornings, late) ==
    FoldLeft(LAMBDA c, d :
                 LET at == start + (d - 1) * DayTicks + 2 * HourTicks
                     night == Arrive(c, draw, d, at)
                 IN  IF d \in mornings THEN ArriveNew(night, draw, at + late) ELSE night,
             Seeded(draw, start), [d \in 1..days |-> d])
=============================================================================

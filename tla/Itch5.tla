------------------------------- MODULE Itch5 ---------------------------------
(***************************************************************************)
(* realperf::itch5 (itch5.hpp): ITCH 5.0 messages.  A message is written   *)
(* field by field, big-endian, and read by casting the bytes to a packed   *)
(* struct.  Bytes are modelled as the sequence of fields that were put,    *)
(* each a value and its width in bytes: a read at an offset finds a value  *)
(* only where a field of that width was put at that offset.  The byte      *)
(* order of a field, the blanks that pad a symbol and are stripped when    *)
(* it is printed, and the decimal point of a price are left out.           *)
(***************************************************************************)
EXTENDS Naturals, Sequences

CONSTANT Garbage   \* what a read finds that does not meet a field

\* A member of a packed struct, and a field that was put.
M(name, width) == [name |-> name, width |-> width]

Put(value, width) == [value |-> value, width |-> width]

HeaderLayout == <<M("type", 1), M("locate", 2), M("tracking", 2), M("timestamp", 6)>>

\* The members that the structs of system and stock messages add to Header.
StockLayouts ==
  [S |-> <<M("event_code", 1)>>,
   R |-> <<M("stock", 8), M("market_category", 1), M("financial_status_indicator", 1),
           M("round_lot_size", 4), M("round_lots_only", 1), M("issue_classification", 1),
           M("issue_sub_type", 2), M("authenticity", 1), M("short_sale_threshold_indicator", 1),
           M("ipo_flag", 1), M("luld_reference_price_tier", 1), M("etp_flag", 1),
           M("etp_leverage_factor", 4), M("inverse_indicator", 1)>>,
   H |-> <<M("stock", 8), M("trading_state", 1), M("reserved", 1), M("reason", 4)>>,
   Y |-> <<M("stock", 8), M("action", 1)>>,
   L |-> <<M("mpid", 4), M("stock", 8), M("primary_market_maker", 1),
           M("market_maker_mode", 1), M("market_participant_state", 1)>>,
   V |-> <<M("level_1", 8), M("level_2", 8), M("level_3", 8)>>,
   W |-> <<M("breached_level", 1)>>,
   K |-> <<M("stock", 8), M("quotation_release_time", 4),
           M("quotation_release_qualifier", 1), M("price", 4)>>,
   J |-> <<M("stock", 8), M("reference_price", 4), M("upper_collar_price", 4),
           M("lower_collar_price", 4), M("extension", 4)>>,
   h |-> <<M("stock", 8), M("market_code", 1), M("action", 1)>>]

\* The members that the structs of order and trade messages add to Header.
OrderLayouts ==
  LET Add == <<M("order_ref", 8), M("side", 1), M("shares", 4), M("stock", 8), M("price", 4)>>
      Execute == <<M("order_ref", 8), M("shares", 4), M("match", 8)>>
  IN
  [A |-> Add,
   F |-> Add \o <<M("attribution", 4)>>,
   E |-> Execute,
   C |-> Execute \o <<M("printable", 1), M("price", 4)>>,
   X |-> <<M("order_ref", 8), M("canceled_shares", 4)>>,
   D |-> <<M("order_ref", 8)>>,
   U |-> <<M("original_order_ref", 8), M("new_order_ref", 8), M("shares", 4), M("price", 4)>>,
   P |-> Add \o <<M("match", 8)>>,
   Q |-> <<M("shares", 8), M("stock", 8), M("price", 4), M("match", 8), M("cross_type", 1)>>,
   B |-> <<M("match", 8)>>,
   I |-> <<M("paired_shares", 8), M("imbalance_shares", 8), M("imbalance_direction", 1),
           M("stock", 8), M("far_price", 4), M("near_price", 4),
           M("current_reference_price", 4), M("cross_type", 1),
           M("price_variation_indicator", 1)>>,
   N |-> <<M("stock", 8), M("interest_flag", 1)>>,
   O |-> <<M("stock", 8), M("open_eligibility_status", 1), M("minimum_allowable_price", 4),
           M("maximum_allowable_price", 4), M("near_execution_price", 4),
           M("near_execution_time", 8), M("lower_price_range_collar", 4),
           M("upper_price_range_collar", 4)>>]

MessageTypes == DOMAIN StockLayouts \cup DOMAIN OrderLayouts

\* The struct that the bytes of a message of this type are cast to.
Layout(type) ==
  HeaderLayout \o (IF type \in DOMAIN StockLayouts THEN StockLayouts[type]
                   ELSE IF type \in DOMAIN OrderLayouts THEN OrderLayouts[type]
                   ELSE <<>>)

\* Where the i-th member or field ends; Ends(s)[Len(s)] is the size of all of them.
Ends(s) == LET end[i \in 0..Len(s)] == IF i = 0 THEN 0 ELSE end[i - 1] + s[i].width
           IN  end

Extent(s) == Ends(s)[Len(s)]

HeaderSize == 11

Sizes == [S |-> 12, R |-> 39, H |-> 25, Y |-> 20, L |-> 26, V |-> 35, W |-> 12, K |-> 28,
          J |-> 35, h |-> 21, A |-> 36, F |-> 40, E |-> 31, C |-> 36, X |-> 23, D |-> 19,
          U |-> 35, P |-> 44, Q |-> 40, B |-> 19, I |-> 50, N |-> 20, O |-> 48]

\* message_size: what parse_message asks for.
MessageSize(type) == IF type \in DOMAIN Sizes THEN Sizes[type] ELSE HeaderSize

\* The static_asserts of itch5.hpp:249-272: the size of each struct is the constant
\* that parse_message asks for.  "?" stands for every character that is no type.
ASSUME StructSizes == \A type \in MessageTypes \cup {"?"} : Extent(Layout(type)) = MessageSize(type)

\* Mutation of ParseMessage: the size of the type is not asked for.
ParseMessageHeaderOnly(type, size) == size >= HeaderSize

\* parse_message accepts a message of this many bytes.
ParseMessage(type, size) == size >= HeaderSize /\ size >= MessageSize(type)

\* What a load of width bytes at offset finds.
ReadAt(bytes, offset, width) ==
  LET met == {i \in 1..Len(bytes) : Ends(bytes)[i - 1] = offset /\ bytes[i].width = width}
  IN  IF met = {} THEN Garbage ELSE bytes[CHOOSE i \in met : TRUE].value

\* operator<<: the members that are printed, which are all but the reserved one.
Shown(type) == {Layout(type)[i].name : i \in 1..Len(Layout(type))} \ {"reserved"}

\* The message that is printed for the bytes at offset, as the struct of its type.
Decode(type, bytes, offset) ==
  LET layout == Layout(type)
      At(name) == CHOOSE i \in 1..Len(layout) : layout[i].name = name
  IN  [name \in Shown(type) |->
         ReadAt(bytes, offset + Ends(layout)[At(name) - 1], layout[At(name)].width)]

-----------------------------------------------------------------------------
\* Mutation of PutHeader: locate and tracking, of the same width, change places.
PutHeaderSwapped(m) == <<Put(m.type, 1), Put(m.tracking, 2), Put(m.locate, 2), Put(m.timestamp, 6)>>

\* make_system_event, make_add_order, make_order_executed, make_order_delete and
\* make_trade: the fields they put, from the arguments in message m.
PutHeader(m) == <<Put(m.type, 1), Put(m.locate, 2), Put(m.tracking, 2), Put(m.timestamp, 6)>>

MakeSystemEvent(m) == PutHeader(m) \o <<Put(m.event_code, 1)>>

MakeAddOrder(m) ==
  PutHeader(m) \o <<Put(m.order_ref, 8), Put(m.side, 1), Put(m.shares, 4),
                    Put(m.stock, 8), Put(m.price, 4)>>

MakeOrderExecuted(m) ==
  PutHeader(m) \o <<Put(m.order_ref, 8), Put(m.shares, 4), Put(m.match, 8)>>

MakeOrderDelete(m) == PutHeader(m) \o <<Put(m.order_ref, 8)>>

MakeTrade(m) ==
  PutHeader(m) \o <<Put(m.order_ref, 8), Put(m.side, 1), Put(m.shares, 4),
                    Put(m.stock, 8), Put(m.price, 4), Put(m.match, 8)>>

Make(m) == CASE m.type = "S" -> MakeSystemEvent(m)
             [] m.type = "A" -> MakeAddOrder(m)
             [] m.type = "E" -> MakeOrderExecuted(m)
             [] m.type = "D" -> MakeOrderDelete(m)
             [] m.type = "P" -> MakeTrade(m)

\* The arguments of one of the makers: a value for every member that is printed.
MadeTypes == {"S", "A", "E", "D", "P"}

IsMessage(m) == m.type \in MadeTypes /\ m = [name \in Shown(m.type) |-> m[name]]
==============================================================================

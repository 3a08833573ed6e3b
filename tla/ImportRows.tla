----------------------------- MODULE ImportRows -----------------------------
(***************************************************************************)
(* Rows of an import: the parsers of products/import.rs, the validator and *)
(* the conversion of products/import_validator.rs.  A row maps a column to *)
(* a cell: a JSON value reduced to what the code tells apart.  An i32      *)
(* goes up to MaxInt.                                                      *)
(***************************************************************************)
EXTENDS Integers, Sequences, FiniteSets

CONSTANT MaxInt   \* the largest i32

ASSUME MaxIntAssumption == MaxInt \in Nat \ {0}

Column == {"sku", "name", "price_cents", "currency", "shelf_life_days",
           "on_shelf"}

\* A cell.  A text is empty, a number, a yes/no word, a three-letter code, or
\* something else.
Absent == [type |-> "absent"]
Null == [type |-> "null"]
Bool(b) == [type |-> "bool", val |-> b]
Num(n) == [type |-> "num", val |-> n]
Blank == [type |-> "text", kind |-> "blank"]
NumText(n) == [type |-> "text", kind |-> "number", val |-> n]
FlagText(b) == [type |-> "text", kind |-> "flag", val |-> b]
Code(c) == [type |-> "text", kind |-> "code", val |-> c]
Other == [type |-> "text", kind |-> "other"]
Cell == [type : {"absent", "null"}]
        \cup [type : {"bool"}, val : BOOLEAN] \cup [type : {"num"}, val : Int]
        \cup [type : {"text"}, kind : {"blank", "other"}]
        \cup [type : {"text"}, kind : {"number"}, val : Int]
        \cup [type : {"text"}, kind : {"flag"}, val : BOOLEAN]
        \cup [type : {"text"}, kind : {"code"}, val : STRING]

\* parse_csv: every cell is a text.  parse_xlsx: a number loses its fraction,
\* an empty or a faulty cell is null.
FromCsv(cell) ==
    CASE cell.type \in {"absent", "null"} -> Blank
      [] cell.type = "bool" -> FlagText(cell.val)
      [] cell.type = "num" -> NumText(cell.val)
      [] OTHER -> cell
FromXlsx(cell) == IF cell.type = "absent" THEN Null ELSE cell

-----------------------------------------------------------------------------
(* validate_row *)

IsText(cell) == cell.type = "text"
Required(cell) == IsText(cell) /\ cell.kind # "blank"

\* A number that is not negative, or a text that reads as one.
Count(cell) ==
    \/ cell.type = "num" /\ cell.val >= 0
    \/ IsText(cell) /\ cell.kind = "number" /\ cell.val >= 0

PriceOk(cell) == cell.type \in {"absent", "null"} \/ Count(cell)
LifeOk(cell) ==
    \/ cell.type \in {"absent", "null"}
    \/ Count(cell)
    \/ cell = Blank
CurrencyOk(cell) == IsText(cell) => cell.kind \in {"blank", "code"}
ShelfOk(cell) ==
    \/ cell.type \in {"absent", "null", "bool"}
    \/ IsText(cell) /\ cell.kind = "flag"
    \/ IsText(cell) /\ cell.kind = "number" /\ cell.val \in {0, 1}

Valid(row) ==
    /\ Required(row["sku"]) /\ Required(row["name"])
    /\ PriceOk(row["price_cents"])
    /\ CurrencyOk(row["currency"])
    /\ LifeOk(row["shelf_life_days"])
    /\ ShelfOk(row["on_shelf"])

-----------------------------------------------------------------------------
(* to_product_fields *)

\* "as i32": the low bits of a number, as a signed one.
AsI32(n) ==
    LET w == 2 * (MaxInt + 1)
        low == n % w
    IN  IF low > MaxInt THEN low - w ELSE low

\* A text too large for an i32 does not parse.
Fits(n) == -MaxInt - 1 <= n /\ n <= MaxInt

Price(cell) ==
    CASE cell.type = "num" -> AsI32(cell.val)
      [] IsText(cell) /\ cell.kind = "number" /\ Fits(cell.val) -> cell.val
      [] OTHER -> 0

NoLife == <<>>
ShelfLife(cell) ==
    CASE cell.type = "num" -> <<AsI32(cell.val)>>
      [] IsText(cell) /\ cell.kind = "number" /\ Fits(cell.val) -> <<cell.val>>
      [] OTHER -> NoLife

\* A number, which the validator refuses, would count as "on the shelf".
OnShelf(cell) ==
    CASE cell.type = "bool" -> cell.val
      [] IsText(cell) -> cell = FlagText(TRUE) \/ cell = NumText(1)
      [] OTHER -> TRUE

Currency(cell) == IF IsText(cell) /\ cell.kind = "code" THEN cell.val ELSE "USD"

\* Slip: the price of a text is not read.
FieldsFromNumbers(row) ==
    [price |-> IF row["price_cents"].type = "num"
               THEN AsI32(row["price_cents"].val) ELSE 0,
     life |-> ShelfLife(row["shelf_life_days"]),
     shelf |-> OnShelf(row["on_shelf"]),
     currency |-> Currency(row["currency"])]

ToProductFields(row) ==
    [price |-> Price(row["price_cents"]),
     life |-> ShelfLife(row["shelf_life_days"]),
     shelf |-> OnShelf(row["on_shelf"]),
     currency |-> Currency(row["currency"])]

\* The checks of the products table that the upsert meets.
Storable(fields) ==
    /\ fields.price >= 0
    /\ fields.life # NoLife => fields.life[1] >= 0
=============================================================================

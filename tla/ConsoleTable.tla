----------------------------- MODULE ConsoleTable -----------------------------
(***************************************************************************)
(* console_table of ConsoleTable/ConsoleTable.hpp: a table that is kept    *)
(* column by column, in maps indexed by the names of the columns, and put  *)
(* together row by row when it is printed.                                 *)
(*                                                                         *)
(* A cell is known by the row and the position it was given at, and by the *)
(* length of its text.  Columns and rows may be added in any order.        *)
(***************************************************************************)
EXTENDS Integers, Sequences, FiniteSets, SequencesExt, FiniteSetsExt

CONSTANTS NameLength,  \* the names of columns, each with its length
          Lengths,     \* the lengths of the texts in the cells
          MaxColumns,  \* bound: columns that are added
          MaxRows,     \* bound: rows that are added
          MaxCells,    \* bound: cells of a row
          NoMinimum    \* 0xffffffff in print

VARIABLES m_column_names,   \* the columns in order
          m_column_widths,  \* name |-> the widest text so far
          m_datas,          \* name |-> its cells
          broken,           \* a row was added to a table without columns
          rows,             \* ghost: the rows as they were added
          late              \* ghost: a column was added behind a row, or twice

tableVars == <<m_column_names, m_column_widths, m_datas, broken, rows, late>>

ColumnNames == DOMAIN NameLength
Columns == ToSet(m_column_names)

\* A column without a name is not added.  There are fewer cells than print takes for no
\* minimum.
ASSUME TableAssumption ==
    /\ \A c \in ColumnNames : NameLength[c] \in Nat \ {0}
    /\ Lengths \subseteq Nat
    /\ {MaxColumns, MaxRows, MaxCells, NoMinimum} \subseteq Nat
    /\ MaxColumns * MaxRows < NoMinimum

TableInit == /\ m_column_names = <<>>
             /\ m_column_widths = [c \in {} |-> 0]
             /\ m_datas = [c \in ColumnNames |-> <<>>]
             /\ broken = FALSE
             /\ rows = <<>>
             /\ late = FALSE
-----------------------------------------------------------------------------
Wider(a, b) == IF a > b THEN a ELSE b

\* add_column: the width of a column that is there already starts over.
add_column(name) ==
    /\ ~broken /\ Len(m_column_names) < MaxColumns
    /\ m_column_names' = Append(m_column_names, name)
    /\ m_column_widths' = [c \in Columns \cup {name} |->
                             IF c = name THEN NameLength[name] ELSE m_column_widths[c]]
    /\ late' = (late \/ rows # <<>> \/ name \in Columns)
    /\ UNCHANGED <<m_datas, broken, rows>>

\* Mutant: the width is that of the last text.
WidenedByLast(width, cell) == cell.length

\* _handle_value: the cell goes below the others of its column, which is as wide as its
\* widest text.
Widened(width, cell) == Wider(width, cell.length)
Handled(table, column, cell) ==
    [datas |-> [table.datas EXCEPT ![column] = Append(@, cell)],
     widths |-> [table.widths EXCEPT ![column] = Widened(@, cell)]]

\* _unpack_values: as many values as there are columns, the others are dropped.
Taken(n) == IF n < Len(m_column_names) THEN n ELSE Len(m_column_names)
Unpacked(row) ==
    LET table[i \in 0..Taken(Len(row))] ==
          IF i = 0 THEN [datas |-> m_datas, widths |-> m_column_widths]
          ELSE Handled(table[i - 1], m_column_names[i], row[i])
    IN  table[Taken(Len(row))]

\* add_row; the first value is handled without a look at the columns.
add_row(row) ==
    /\ ~broken /\ Len(rows) < MaxRows
    /\ IF m_column_names = <<>>
       THEN broken' = TRUE /\ UNCHANGED <<m_datas, m_column_widths>>
       ELSE /\ m_datas' = Unpacked(row).datas
            /\ m_column_widths' = Unpacked(row).widths
            /\ UNCHANGED broken
    /\ rows' = Append(rows, row)
    /\ UNCHANGED <<m_column_names, late>>

Rows == LET Row(lengths) == [i \in DOMAIN lengths |->
                               [row |-> Len(rows) + 1, at |-> i, length |-> lengths[i]]]
        IN  {Row(lengths) : lengths \in BoundedSeq(Lengths, MaxCells) \ {<<>>}}

TableNext == \/ \E name \in ColumnNames : add_column(name)
             \/ \E row \in Rows : add_row(row)

TableSpec == TableInit /\ [][TableNext]_tableVars
-----------------------------------------------------------------------------
\* print: as many rows as the shortest column that has any.
min_rows_count ==
    LET counts == {Len(m_datas[c]) : c \in {d \in Columns : m_datas[d] # <<>>}}
    IN  IF counts = {} THEN NoMinimum ELSE Min(counts)

\* What is printed of a cell is cut to the width of the column and one more.
Printed(index, c) == m_datas[c][index]
Cut(cell, c) == cell.length > m_column_widths[c] + 1
-----------------------------------------------------------------------------
\* The first n rows have a value for every column.
Whole(n) == \A i \in 1..n : Len(rows[i]) >= Len(m_column_names)

\* When all columns are there before the first row, each once, print shows the rows
\* as they were added, up to the first with too few values: no cell in another row,
\* under another column, or cut. It prints 0xffffffff rows just when none was added
\* (ConsoleTable.hpp 99-113, 151-194).
RowsStayTogether ==
    ~broken =>
        /\ rows = <<>> <=> min_rows_count = NoMinimum
        /\ ~late /\ rows # <<>> =>
              /\ min_rows_count <= Len(rows)
              /\ \A n \in DOMAIN rows : Whole(n) =>
                    /\ n <= min_rows_count
                    /\ \A i \in DOMAIN m_column_names :
                          /\ Printed(n, m_column_names[i]) = rows[n][i]
                          /\ ~Cut(rows[n][i], m_column_names[i])
=============================================================================

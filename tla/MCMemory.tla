------------------------------ MODULE MCMemory ------------------------------
(* TLC instances of the memory managers: ten frames of four bytes, words of *)
(* five bits, tables of four entries, so the first 8 MB are frames 0..7.    *)
EXTENDS Memory

Region(available, base, length) ==
  [available |-> available, base_high |-> 0, base_low |-> base,
   length_high |-> 0, length_low |-> length]

Beyond4G == [available |-> TRUE, base_high |-> 1, base_low |-> 0,
             length_high |-> 0, length_low |-> 8]

Info(ram, map) == [mem |-> ram, has_mmap |-> TRUE, mmap |-> map, mods |-> <<>>]

\* Maps that lie within total_pages: a low region that ends inside a page and
\* one above 1 MB; a repeated and overlapping one; no map at all; RAM to the
\* last frame; more RAM than frames; a region that starts inside a page.
MapsWithin ==
  { Info(36, <<Region(TRUE, 0, 7), Region(FALSE, 7, 1), Region(TRUE, 8, 28)>>),
    Info(32, <<Region(TRUE, 12, 12), Beyond4G, Region(TRUE, 16, 16)>>),
    [mem |-> 36, has_mmap |-> FALSE, mmap |-> <<>>, mods |-> <<>>],
    Info(40, <<Region(TRUE, 0, 40)>>),
    Info(60, <<Region(TRUE, 0, 60)>>),
    Info(40, <<Region(TRUE, 22, 10)>>) }

\* A hole below the rest of the RAM: mem_upper, and with it total_pages, stops
\* at the hole while the map goes on.
MapsHole ==
  { Info(16, <<Region(TRUE, 0, 16), Region(TRUE, 20, 20)>>),
    Info(28, <<Region(TRUE, 0, 28), Region(FALSE, 28, 4), Region(TRUE, 32, 8)>>) }

\* A region that starts below 4 GB and ends above it, of which nothing is freed.
MapsCrossing ==
  { Info(40, <<Region(TRUE, 0, 8),
               [Region(TRUE, 24, 8) EXCEPT !.length_high = 1]>>) }

\* Four frames for directories, tables and data: all below 8 MB, or one above.
MCPagedMaps ==
  { Info(40, <<Region(TRUE, 4, 4), Region(TRUE, 20, 12)>>),
    Info(40, <<Region(TRUE, 20, 16)>>) }

MCMbis == MapsWithin \cup MapsHole \cup MapsCrossing \cup MCPagedMaps

\* One module above the kernel, and memory after it.
ModuleMaps == { [Info(40, <<Region(TRUE, 4, 36)>>) EXCEPT !.mods = <<22>>] }

\* A worst case: every word of the RAM looks like a page table entry.
MCJunk == [f \in Frames |-> [i \in Idx |-> [base |-> kernel_dir, flags |-> Flags]]]
=============================================================================

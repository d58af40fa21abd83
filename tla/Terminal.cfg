CONSTANTS
  space = space
  ca = ca
  cb = cb
  cc = cc
  cd = cd
  wide = wide
  nul = nul
  Zero = nul
  Bytes <- MCBytes
  BufferSize = 2
  Data <- MCData
  Sizes = {1, 2}
  Max_Row = 3
  Max_Column = 2
  TabWidth = 2
  Visible = {space, ca, cb, cc, cd, wide}
  Blank = space
  Height = 2
  Header = 4
  font_buf <- MCText
  Code <- MCCode
  Font <- MCFont
SPECIFICATION DisplayedSpec
INVARIANTS
  GlyphsShown
PROPERTIES
  ImplementsFifo
  ImplementsPaper
  ImplementsTeletype

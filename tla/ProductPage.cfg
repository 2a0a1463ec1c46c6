CONSTANTS
  Products = {1, 2}
  Categories = {robes}
  Words = {soir}
  CategoryOf <- MCCategoryOf
  Found <- MCFound
  VariantsOf <- MCVariantsOf
  red = red
  blue = blue
  small = small
  medium = medium
  PAGE = 1
  MAX_PAGE = 2
  MAX_MOVES = 2
  MAX_STOCK = 2
  MAX_ADDS = 2
  None = None
SPECIFICATION BrowseSpec
INVARIANTS
    ListIsTheQuerys
    SearchIsTyped
    ChoiceIsSellable
PROPERTIES
    PagesStopLoading
CHECK_DEADLOCK FALSE
